---- MODULE Spec2Model ----
(***************************************************************************)
(* Dynamic Bonding Curve SDK: the curve-construction engine (the five     *)
(* buildCurve functions), its curve/fee helpers (helpers/common.ts) and    *)
(* the swap gating of                                                      *)
(* PoolService, as pure operators applied by the actions of small state    *)
(* machines.                                                               *)
(*                                                                         *)
(* Number representation.  The SDK works on bn.js integers and decimal.js  *)
(* decimals with sqrt prices in Q64.64.  TLC's integers are 32 bits wide,  *)
(* so the curve model keeps the SDK's formulas but holds sqrt prices in    *)
(* Q(QBits).(QBits): the source's 2^64 is 2^QBits here, its 2^128 is       *)
(* 2^(2*QBits), and MIN_SQRT_PRICE / MAX_SQRT_PRICE are the same powers    *)
(* (2^(RESOLUTION/2) and 2^(3*RESOLUTION/2)) on the reduced scale.         *)
(* decimal.js values are exact rationals (numerator, denominator), floored *)
(* where the source floors them.  Where a 64-bit or wider width decides a  *)
(* claim (getTotalTokenSupply, getDynamicFeeParams) numbers are exact      *)
(* little-endian base-2^8 digit sequences (the Big operators).             *)
(***************************************************************************)
EXTENDS Integers, Sequences, FiniteSets, TLC

VARIABLES op, args, out, locals

vars == <<op, args, out, locals>>

(***************************************************************************)
(* Bounds of the model.                                                    *)
(***************************************************************************)
\* fractional bits of a sqrt price (64 in the source, RESOLUTION)
QBits == 4
\* largest leftover, in whole base tokens, a launch request declares
MaxLeftover == 2
\* a Decimal root is kept to 1 / RootScale (20 significant digits in the
\* source)
RootScale == 100
\* a Decimal liquidity weight is kept to 1 / WeightScale
WeightScale == 100000
\* segments buildCurveWithLiquidityWeights builds and weights it is given
\* (16 in the source)
NumWeights == 4

(***************************************************************************)
(* constants.ts                                                            *)
(***************************************************************************)
ONE_Q64 == 2 ^ QBits
\* the source's 2^128 (shln(128) / shrn(128))
Q128 == 2 ^ (2 * QBits)
MIN_SQRT_PRICE == 2 ^ (QBits \div 2)
MAX_SQRT_PRICE == 2 ^ (QBits + QBits \div 2)
FEE_DENOMINATOR == 1000000000
MAX_FEE_BPS == 9900
MIN_FEE_NUMERATOR == 2500000
MAX_FEE_NUMERATOR == 990000000
BASIS_POINT_MAX == 10000
SWAP_BUFFER_PERCENTAGE == 25
MAX_RATE_LIMITER_DURATION_IN_SECONDS == 43200
MAX_RATE_LIMITER_DURATION_IN_SLOTS == 108000

\* enums of types.ts
MET_DAMM == 0
MET_DAMM_V2 == 1
NO_MIGRATION == 2
FeeSchedulerLinear == 0
FeeSchedulerExponential == 1
RateLimiter == 2
ActivationSlot == 0
ActivationTimestamp == 1
Customizable == 6

(***************************************************************************)
(* Results: a returned value or a thrown error.                            *)
(***************************************************************************)
Ret(x) == [ok |-> TRUE, v |-> x, err |-> ""]
Throw(e) == [ok |-> FALSE, v |-> 0, err |-> e]

(***************************************************************************)
(* Integer helpers.                                                        *)
(***************************************************************************)
Min(a, b) == IF a <= b THEN a ELSE b
Max(a, b) == IF a >= b THEN a ELSE b
Abs(a) == IF a < 0 THEN -a ELSE a
\* ceiling of a / b for a >= 0, b > 0
CeilDiv(a, b) == (a + b - 1) \div b
\* bn.js div: truncation toward zero (b > 0)
TruncDiv(a, b) == IF a >= 0 THEN a \div b ELSE -((-a) \div b)
TenPow(d) == 10 ^ d

RECURSIVE SqrtSearch(_, _, _)
SqrtSearch(x, lo, hi) ==
    IF lo >= hi THEN lo
    ELSE LET mid == (lo + hi + 1) \div 2
         IN  IF mid * mid <= x THEN SqrtSearch(x, mid, hi)
             ELSE SqrtSearch(x, lo, mid - 1)
\* floor of the square root of x >= 0 (x < 2^30)
ISqrt(x) == SqrtSearch(x, 0, Min(x, 32767))

(***************************************************************************)
(* bn.js values: [neg, m], m the magnitude as a little-endian sequence of  *)
(* base-BigBase digits without leading zero digits (<< >> is zero).        *)
(***************************************************************************)
BigBase == 10 ^ 4

RECURSIVE MNorm(_)
MNorm(m) == IF m = << >> THEN m
            ELSE IF m[Len(m)] = 0 THEN MNorm(SubSeq(m, 1, Len(m) - 1))
            ELSE m

RECURSIVE MFromInt(_)
MFromInt(n) == IF n = 0 THEN << >>
               ELSE <<n % BigBase>> \o MFromInt(n \div BigBase)

RECURSIVE MToInt(_)
MToInt(m) == IF m = << >> THEN 0 ELSE m[1] + BigBase * MToInt(Tail(m))

MDigit(m, i) == IF i <= Len(m) THEN m[i] ELSE 0

RECURSIVE MAddFrom(_, _, _, _)
MAddFrom(a, b, i, carry) ==
    IF i > Len(a) /\ i > Len(b)
    THEN IF carry = 0 THEN << >> ELSE <<carry>>
    ELSE LET t == MDigit(a, i) + MDigit(b, i) + carry
         IN  <<t % BigBase>> \o MAddFrom(a, b, i + 1, t \div BigBase)
MAdd(a, b) == MAddFrom(a, b, 1, 0)

\* a - b for a >= b
RECURSIVE MSubFrom(_, _, _, _)
MSubFrom(a, b, i, borrow) ==
    IF i > Len(a) THEN << >>
    ELSE LET t == MDigit(a, i) - MDigit(b, i) - borrow
         IN  IF t < 0 THEN <<t + BigBase>> \o MSubFrom(a, b, i + 1, 1)
             ELSE <<t>> \o MSubFrom(a, b, i + 1, 0)
MSub(a, b) == MNorm(MSubFrom(a, b, 1, 0))

\* -1, 0, 1 as a < b, a = b, a > b; i runs from the top digit down
RECURSIVE MCmpFrom(_, _, _)
MCmpFrom(a, b, i) ==
    IF i = 0 THEN 0
    ELSE IF a[i] < b[i] THEN -1
    ELSE IF a[i] > b[i] THEN 1
    ELSE MCmpFrom(a, b, i - 1)
MCmp(a, b) == IF Len(a) < Len(b) THEN -1
              ELSE IF Len(a) > Len(b) THEN 1
              ELSE MCmpFrom(a, b, Len(a))

RECURSIVE MMulDigitFrom(_, _, _, _)
MMulDigitFrom(a, k, i, carry) ==
    IF i > Len(a) THEN IF carry = 0 THEN << >> ELSE <<carry>>
    ELSE LET t == a[i] * k + carry
         IN  <<t % BigBase>> \o MMulDigitFrom(a, k, i + 1, t \div BigBase)
MMulDigit(a, k) == IF k = 0 THEN << >> ELSE MMulDigitFrom(a, k, 1, 0)

MShift(a) == IF a = << >> THEN a ELSE <<0>> \o a

RECURSIVE MMul(_, _)
MMul(a, b) == IF b = << >> \/ a = << >> THEN << >>
              ELSE MAdd(MMulDigit(a, b[1]), MShift(MMul(a, Tail(b))))

\* largest k in lo..hi with b * k <= r
RECURSIVE MQuotDigit(_, _, _, _)
MQuotDigit(r, b, lo, hi) ==
    IF lo = hi THEN lo
    ELSE LET mid == (lo + hi + 1) \div 2
         IN  IF MCmp(MMulDigit(b, mid), r) <= 0
             THEN MQuotDigit(r, b, mid, hi)
             ELSE MQuotDigit(r, b, lo, mid - 1)

\* long division of a by b # 0, from the top digit i down: [q, r]
RECURSIVE MDivFrom(_, _, _, _, _)
MDivFrom(a, b, i, q, r) ==
    IF i = 0 THEN [q |-> MNorm(q), r |-> r]
    ELSE LET r1 == MNorm(<<a[i]>> \o r)
             k == MQuotDigit(r1, b, 0, BigBase - 1)
         IN  MDivFrom(a, b, i - 1, <<k>> \o q, MSub(r1, MMulDigit(b, k)))
MDivMod(a, b) == MDivFrom(a, b, Len(a), << >>, << >>)

RECURSIVE MBitLength(_)
MBitLength(m) == IF m = << >> THEN 0
                 ELSE 1 + MBitLength(MDivMod(m, <<2>>).q)

BN(n) == [neg |-> n < 0, m |-> MFromInt(Abs(n))]
BNisNeg(a) == a.neg /\ a.m # << >>
BNisZero(a) == a.m = << >>
BNbitLength(a) == MBitLength(a.m)
BNneg(a) == [neg |-> ~a.neg /\ a.m # << >>, m |-> a.m]
BNadd(a, b) ==
    IF BNisNeg(a) = BNisNeg(b) THEN [neg |-> BNisNeg(a), m |-> MAdd(a.m, b.m)]
    ELSE IF MCmp(a.m, b.m) >= 0
    THEN [neg |-> BNisNeg(a) /\ MCmp(a.m, b.m) > 0, m |-> MSub(a.m, b.m)]
    ELSE [neg |-> BNisNeg(b), m |-> MSub(b.m, a.m)]
BNsub(a, b) == BNadd(a, BNneg(b))
BNmul(a, b) ==
    LET m == MMul(a.m, b.m)
    IN  [neg |-> (BNisNeg(a) # BNisNeg(b)) /\ m # << >>, m |-> m]
\* truncating division, b # 0
BNdiv(a, b) ==
    LET m == MDivMod(a.m, b.m).q
    IN  [neg |-> (BNisNeg(a) # BNisNeg(b)) /\ m # << >>, m |-> m]
BNcmp(a, b) ==
    IF BNisNeg(a) /\ ~BNisNeg(b) THEN -1
    ELSE IF ~BNisNeg(a) /\ BNisNeg(b) THEN 1
    ELSE IF BNisNeg(a) THEN MCmp(b.m, a.m)
    ELSE MCmp(a.m, b.m)


(***************************************************************************)
(* decimal.js values: exact rationals [n, d] in lowest terms, d > 0.       *)
(***************************************************************************)
RECURSIVE GCD(_, _)
GCD(a, b) == IF b = 0 THEN a ELSE GCD(b, a % b)
Dec(n, d) ==
    LET g == GCD(Abs(n), Abs(d))
        sgn == IF d < 0 THEN -1 ELSE 1
    IN  IF g = 0 THEN [n |-> 0, d |-> 1]
        ELSE [n |-> sgn * (n \div g), d |-> sgn * (d \div g)]
DecInt(a) == [n |-> a, d |-> 1]
DecMul(a, b) ==
    LET g1 == Max(GCD(Abs(a.n), b.d), 1)
        g2 == Max(GCD(Abs(b.n), a.d), 1)
    IN  Dec((a.n \div g1) * (b.n \div g2), (a.d \div g2) * (b.d \div g1))
\* b # 0
DecDiv(a, b) == DecMul(a, Dec(b.d, b.n))
DecFloor(a) == a.n \div a.d

DecAdd(a, b) ==
    LET g == GCD(a.d, b.d)
    IN  Dec(a.n * (b.d \div g) + b.n * (a.d \div g), (a.d \div g) * b.d)
\* a cut to 1 / scale
DecTrunc(a, scale) == Dec((a.n * scale) \div a.d, scale)
RECURSIVE MPow(_, _)
MPow(m, n) ==
    IF n = 0 THEN <<1>>
    ELSE IF n % 2 = 1 THEN MMul(m, MPow(m, n - 1))
    ELSE LET h == MPow(m, n \div 2) IN MMul(h, h)
RECURSIVE RootSearch(_, _, _, _)
\* largest r in lo..hi with (r / RootScale)^n <= a
RootSearch(a, n, lo, hi) ==
    IF lo >= hi THEN lo
    ELSE LET mid == (lo + hi + 1) \div 2
         IN  IF MCmp(MMul(MPow(MFromInt(mid), n), MFromInt(a.d)),
                     MMul(MPow(MFromInt(RootScale), n), MFromInt(a.n))) <= 0
             THEN RootSearch(a, n, mid, hi)
             ELSE RootSearch(a, n, lo, mid - 1)
\* a^(1/n) for a >= 0, kept to 1 / RootScale
DecRoot(a, n) == Dec(RootSearch(a, n, 0, RootScale * (a.n \div a.d + 1)), RootScale)
\* Decimal.sqrt, kept to 1 / RootScale
DecSqrt(a) == Dec(ISqrt((a.n * RootScale * RootScale) \div a.d), RootScale)


(***************************************************************************)
(* math/curve.ts (the Curve Math Kernel, spec section 4.2).  Amounts,      *)
(* liquidity and sqrt prices are unsigned: a negative operand or an        *)
(* inverted interval is a failure, and so is a division by zero.           *)
(***************************************************************************)
\* liquidity * (upper - lower) / (lower * upper), rounded as asked
getDeltaAmountBaseUnsigned(lowerSqrtPrice, upperSqrtPrice, liquidity, round) ==
    IF liquidity < 0 \/ lowerSqrtPrice <= 0 \/ upperSqrtPrice < lowerSqrtPrice
    THEN Throw("Math overflow")
    ELSE LET numerator == liquidity * (upperSqrtPrice - lowerSqrtPrice)
             denominator == lowerSqrtPrice * upperSqrtPrice
         IN  Ret(IF round = "Up" THEN CeilDiv(numerator, denominator)
                 ELSE numerator \div denominator)

\* liquidity * (upper - lower) / 2^128, rounded as asked
getDeltaAmountQuoteUnsigned(lowerSqrtPrice, upperSqrtPrice, liquidity, round) ==
    IF liquidity < 0 \/ lowerSqrtPrice < 0 \/ upperSqrtPrice < lowerSqrtPrice
    THEN Throw("Math overflow")
    ELSE LET prod == liquidity * (upperSqrtPrice - lowerSqrtPrice)
         IN  Ret(IF round = "Up" THEN CeilDiv(prod, Q128) ELSE prod \div Q128)

\* baseAmount * sqrtPrice * sqrtMaxPrice / (sqrtMaxPrice - sqrtPrice)
getInitialLiquidityFromDeltaBase(baseAmount, sqrtMaxPrice, sqrtPrice) ==
    IF baseAmount < 0 \/ sqrtPrice <= 0 \/ sqrtMaxPrice <= sqrtPrice
    THEN Throw("Math overflow")
    ELSE Ret((baseAmount * sqrtPrice * sqrtMaxPrice)
                 \div (sqrtMaxPrice - sqrtPrice))

\* (quoteAmount << 128) / (sqrtPrice - sqrtMinPrice)
getInitialLiquidityFromDeltaQuote(quoteAmount, sqrtMinPrice, sqrtPrice) ==
    IF quoteAmount < 0 \/ sqrtMinPrice < 0 \/ sqrtPrice <= sqrtMinPrice
    THEN Throw("Math overflow")
    ELSE Ret((quoteAmount * Q128) \div (sqrtPrice - sqrtMinPrice))

\* quote input (baseForQuote = FALSE): sqrtPrice + (amountIn << 128) / liquidity;
\* base input: liquidity * sqrtPrice / (liquidity + amountIn * sqrtPrice), up
getNextSqrtPriceFromInput(sqrtPrice, liquidity, amountIn, baseForQuote) ==
    IF sqrtPrice <= 0 \/ liquidity <= 0 \/ amountIn < 0
    THEN Throw("Math overflow")
    ELSE IF baseForQuote
         THEN Ret(CeilDiv(liquidity * sqrtPrice,
                          liquidity + amountIn * sqrtPrice))
         ELSE Ret(sqrtPrice + (amountIn * Q128) \div liquidity)

(***************************************************************************)
(* helpers/utils.ts                                                        *)
(***************************************************************************)
\* bps * FEE_DENOMINATOR / BASIS_POINT_MAX
bpsToFeeNumerator(bps) == bps * (FEE_DENOMINATOR \div BASIS_POINT_MAX)
\* floor(amount * 10^tokenDecimal); amount is a decimal
convertToLamports(amount, tokenDecimal) ==
    DecFloor(DecMul(amount, DecInt(TenPow(tokenDecimal))))
\* floor of the decimal num / den (den > 0)
fromDecimalToBN(value) == DecFloor(value)

(***************************************************************************)
(* helpers/common.ts                                                       *)
(***************************************************************************)
Seg(sqrtPrice, liquidity) == [sqrtPrice |-> sqrtPrice, liquidity |-> liquidity]

RECURSIVE BaseTokenForSwapFrom(_, _, _, _)
BaseTokenForSwapFrom(i, sqrtStartPrice, sqrtMigrationPrice, curve) ==
    IF i > Len(curve) THEN Ret(0)
    ELSE LET lowerSqrtPrice ==
                 IF i = 1 THEN sqrtStartPrice ELSE curve[i - 1].sqrtPrice
         IN  IF curve[i].sqrtPrice > sqrtMigrationPrice
             THEN getDeltaAmountBaseUnsigned(lowerSqrtPrice, sqrtMigrationPrice,
                                             curve[i].liquidity, "Up")
             ELSE LET deltaAmount ==
                          getDeltaAmountBaseUnsigned(lowerSqrtPrice,
                              curve[i].sqrtPrice, curve[i].liquidity, "Up")
                      rest == BaseTokenForSwapFrom(i + 1, sqrtStartPrice,
                                                   sqrtMigrationPrice, curve)
                  IN  IF ~deltaAmount.ok THEN deltaAmount
                      ELSE IF ~rest.ok THEN rest
                      ELSE Ret(deltaAmount.v + rest.v)

getBaseTokenForSwap(sqrtStartPrice, sqrtMigrationPrice, curve) ==
    BaseTokenForSwapFrom(1, sqrtStartPrice, sqrtMigrationPrice, curve)

\* floor(migrationQuoteThreshold * (100 - migrationFeePercent) / 100) as the
\* callers floor it (fromDecimalToBN)
getMigrationQuoteAmountFromMigrationQuoteThreshold(migrationQuoteThreshold, migrationFeePercent) ==
    DecMul(migrationQuoteThreshold, Dec(100 - migrationFeePercent, 100))

\* The NO_MIGRATION branch taken for the MET_DAMM quotient.
getMigrationBaseTokenNoMigrationAsDamm(migrationQuoteAmount, sqrtMigrationPrice, migrationOption) ==
    IF migrationOption \in {MET_DAMM, NO_MIGRATION}
    THEN LET price == sqrtMigrationPrice * sqrtMigrationPrice
         IN  IF price = 0 \/ migrationQuoteAmount < 0 THEN Throw("Math overflow")
             ELSE Ret(CeilDiv(migrationQuoteAmount * Q128, price))
    ELSE IF migrationOption = MET_DAMM_V2
    THEN LET liquidity ==
                 getInitialLiquidityFromDeltaQuote(migrationQuoteAmount,
                     MIN_SQRT_PRICE, sqrtMigrationPrice)
         IN  IF ~liquidity.ok THEN liquidity
             ELSE getDeltaAmountBaseUnsigned(sqrtMigrationPrice, MAX_SQRT_PRICE,
                                             liquidity.v, "Up")
    ELSE Throw("Invalid migration option")

getMigrationBaseToken(migrationQuoteAmount, sqrtMigrationPrice, migrationOption) ==
    IF migrationOption = MET_DAMM
    THEN LET price == sqrtMigrationPrice * sqrtMigrationPrice
         IN  IF price = 0 \/ migrationQuoteAmount < 0 THEN Throw("Math overflow")
             ELSE Ret(CeilDiv(migrationQuoteAmount * Q128, price))
    ELSE IF migrationOption = MET_DAMM_V2
    THEN LET liquidity ==
                 getInitialLiquidityFromDeltaQuote(migrationQuoteAmount,
                     MIN_SQRT_PRICE, sqrtMigrationPrice)
         IN  IF ~liquidity.ok THEN liquidity
             ELSE getDeltaAmountBaseUnsigned(sqrtMigrationPrice, MAX_SQRT_PRICE,
                                             liquidity.v, "Up")
    ELSE IF migrationOption = NO_MIGRATION
    THEN LET liquidity ==
                 getInitialLiquidityFromDeltaQuote(migrationQuoteAmount,
                     MIN_SQRT_PRICE, sqrtMigrationPrice)
         IN  IF ~liquidity.ok THEN liquidity
             ELSE getDeltaAmountBaseUnsigned(sqrtMigrationPrice, MAX_SQRT_PRICE,
                                             liquidity.v, "Up")
    ELSE Throw("Invalid migration option")

getTotalVestingAmount(lockedVesting) ==
    lockedVesting.cliffUnlockAmount
        + lockedVesting.amountPerPeriod * lockedVesting.numberOfPeriod

getLiquidity(baseAmount, quoteAmount, minSqrtPrice, maxSqrtPrice) ==
    LET liquidityFromBase ==
            getInitialLiquidityFromDeltaBase(baseAmount, maxSqrtPrice, minSqrtPrice)
        liquidityFromQuote ==
            getInitialLiquidityFromDeltaQuote(quoteAmount, minSqrtPrice, maxSqrtPrice)
    IN  IF ~liquidityFromBase.ok THEN liquidityFromBase
        ELSE IF ~liquidityFromQuote.ok THEN liquidityFromQuote
        ELSE Ret(Min(liquidityFromBase.v, liquidityFromQuote.v))

\* sqrtStartPrice = floor(migrationSqrtPrice * migrationBaseAmount
\*                        / (swapAmount * (100 - migrationFeePercent) / 100))
getFirstCurve(migrationSqrtPrice, migrationBaseAmount, swapAmount, migrationQuoteThreshold, migrationFeePercent) ==
    LET denominator == swapAmount * (100 - migrationFeePercent)
    IN  IF denominator <= 0 THEN Throw("Math overflow")
        ELSE LET sqrtStartPrice ==
                     (migrationSqrtPrice * migrationBaseAmount * 100)
                         \div denominator
                 liquidity == getLiquidity(swapAmount, migrationQuoteThreshold,
                                           sqrtStartPrice, migrationSqrtPrice)
             IN  IF ~liquidity.ok THEN liquidity
                 ELSE Ret([sqrtStartPrice |-> sqrtStartPrice,
                           curve |-> <<Seg(migrationSqrtPrice, liquidity.v)>>])

RECURSIVE ThresholdWalkUnchecked(_, _, _, _)
\* the loop of getMigrationThresholdPrice without the check of amountLeft
\* after it
ThresholdWalkUnchecked(i, amountLeft, nextSqrtPrice, curve) ==
    IF i > Len(curve)
    THEN Ret(nextSqrtPrice)
    ELSE LET maxAmount ==
                 getDeltaAmountQuoteUnsigned(nextSqrtPrice, curve[i].sqrtPrice,
                                             curve[i].liquidity, "Up")
         IN  IF ~maxAmount.ok THEN maxAmount
             ELSE IF maxAmount.v > amountLeft
             THEN getNextSqrtPriceFromInput(nextSqrtPrice, curve[i].liquidity,
                                            amountLeft, FALSE)
             ELSE ThresholdWalkUnchecked(i + 1, amountLeft - maxAmount.v,
                                         curve[i].sqrtPrice, curve)

RECURSIVE ThresholdWalk(_, _, _, _)
\* the loop of getMigrationThresholdPrice from segment i on
ThresholdWalk(i, amountLeft, nextSqrtPrice, curve) ==
    IF i > Len(curve)
    THEN IF amountLeft # 0 THEN Throw("Not enough liquidity")
         ELSE Ret(nextSqrtPrice)
    ELSE LET maxAmount ==
                 getDeltaAmountQuoteUnsigned(nextSqrtPrice, curve[i].sqrtPrice,
                                             curve[i].liquidity, "Up")
         IN  IF ~maxAmount.ok THEN maxAmount
             ELSE IF maxAmount.v > amountLeft
             THEN getNextSqrtPriceFromInput(nextSqrtPrice, curve[i].liquidity,
                                            amountLeft, FALSE)
             ELSE ThresholdWalk(i + 1, amountLeft - maxAmount.v,
                                curve[i].sqrtPrice, curve)

getMigrationThresholdPrice(migrationThreshold, sqrtStartPrice, curve) ==
    IF Len(curve) = 0 THEN Throw("Curve is empty")
    ELSE LET totalAmount ==
                 getDeltaAmountQuoteUnsigned(sqrtStartPrice, curve[1].sqrtPrice,
                                             curve[1].liquidity, "Up")
         IN  IF ~totalAmount.ok THEN totalAmount
             ELSE IF totalAmount.v > migrationThreshold
             THEN getNextSqrtPriceFromInput(sqrtStartPrice, curve[1].liquidity,
                                            migrationThreshold, FALSE)
             ELSE ThresholdWalk(2, migrationThreshold - totalAmount.v,
                                curve[1].sqrtPrice, curve)

getSwapAmountWithBuffer(swapBaseAmount, sqrtStartPrice, curve) ==
    LET swapAmountBuffer ==
            swapBaseAmount + (swapBaseAmount * SWAP_BUFFER_PERCENTAGE) \div 100
        maxBaseAmountOnCurve ==
            getBaseTokenForSwap(sqrtStartPrice, MAX_SQRT_PRICE, curve)
    IN  IF ~maxBaseAmountOnCurve.ok THEN maxBaseAmountOnCurve
        ELSE Ret(Min(swapAmountBuffer, maxBaseAmountOnCurve.v))

getTotalSupplyFromCurve(migrationQuoteThreshold, sqrtStartPrice, curve, lockedVesting, migrationOption, leftover, migrationFeePercent) ==
    LET sqrtMigrationPrice ==
            getMigrationThresholdPrice(migrationQuoteThreshold, sqrtStartPrice, curve)
        swapBaseAmount ==
            getBaseTokenForSwap(sqrtStartPrice, sqrtMigrationPrice.v, curve)
        swapBaseAmountBuffer ==
            getSwapAmountWithBuffer(swapBaseAmount.v, sqrtStartPrice, curve)
        migrationQuoteAmount ==
            fromDecimalToBN(getMigrationQuoteAmountFromMigrationQuoteThreshold(
                DecInt(migrationQuoteThreshold), migrationFeePercent))
        migrationBaseAmount ==
            getMigrationBaseToken(migrationQuoteAmount, sqrtMigrationPrice.v,
                                  migrationOption)
        totalVestingAmount == getTotalVestingAmount(lockedVesting)
    IN  IF ~sqrtMigrationPrice.ok THEN sqrtMigrationPrice
        ELSE IF ~swapBaseAmount.ok THEN swapBaseAmount
        ELSE IF ~swapBaseAmountBuffer.ok THEN swapBaseAmountBuffer
        ELSE IF ~migrationBaseAmount.ok THEN migrationBaseAmount
        ELSE Ret(swapBaseAmountBuffer.v + migrationBaseAmount.v
                     + totalVestingAmount + leftover)

(***************************************************************************)
(* Fee parameters (helpers/common.ts).  A BaseFee is the record            *)
(* cliffFeeNumerator, firstFactor, secondFactor, thirdFactor, baseFeeMode. *)
(***************************************************************************)
BaseFee(cliff, first, second, third, mode) ==
    [cliffFeeNumerator |-> cliff, firstFactor |-> first,
     secondFactor |-> second, thirdFactor |-> third, baseFeeMode |-> mode]

\* new BN(BASIS_POINT_MAX * (1 - ratio^(1/numberOfPeriod))), ratio = min / max:
\* the largest r with ((BASIS_POINT_MAX - r) / BASIS_POINT_MAX)^n >= min / max.
\* The model draws exponential schedules with one period, where the root
\* is the ratio itself.
ExponentialReductionFactor(startingBaseFeeBps, endingBaseFeeBps) ==
    (BASIS_POINT_MAX * (startingBaseFeeBps - endingBaseFeeBps))
        \div startingBaseFeeBps

\* getFeeSchedulerParams without its last check of the periods and duration
getFeeSchedulerParamsUnchecked(startingBaseFeeBps, endingBaseFeeBps, baseFeeMode, numberOfPeriod, totalDuration) ==
    IF startingBaseFeeBps = endingBaseFeeBps
    THEN IF numberOfPeriod # 0 \/ totalDuration # 0
         THEN Throw("numberOfPeriod and totalDuration must both be zero")
         ELSE Ret(BaseFee(bpsToFeeNumerator(startingBaseFeeBps), 0, 0, 0,
                          FeeSchedulerLinear))
    ELSE IF numberOfPeriod <= 0
    THEN Throw("Total periods must be greater than zero")
    ELSE IF startingBaseFeeBps > MAX_FEE_BPS
    THEN Throw("startingBaseFeeBps exceeds maximum allowed value")
    ELSE IF endingBaseFeeBps > startingBaseFeeBps
    THEN Throw("endingBaseFeeBps bps must be less than or equal to startingBaseFeeBps bps")
    ELSE Ret(BaseFee(bpsToFeeNumerator(startingBaseFeeBps), numberOfPeriod,
                     totalDuration \div numberOfPeriod,
                     IF baseFeeMode = FeeSchedulerLinear
                     THEN TruncDiv(bpsToFeeNumerator(startingBaseFeeBps)
                                       - bpsToFeeNumerator(endingBaseFeeBps),
                                   numberOfPeriod)
                     ELSE ExponentialReductionFactor(startingBaseFeeBps,
                                                     endingBaseFeeBps),
                     baseFeeMode))

getFeeSchedulerParams(startingBaseFeeBps, endingBaseFeeBps, baseFeeMode, numberOfPeriod, totalDuration) ==
    IF startingBaseFeeBps = endingBaseFeeBps
    THEN IF numberOfPeriod # 0 \/ totalDuration # 0
         THEN Throw("numberOfPeriod and totalDuration must both be zero")
         ELSE Ret(BaseFee(bpsToFeeNumerator(startingBaseFeeBps), 0, 0, 0,
                          FeeSchedulerLinear))
    ELSE IF numberOfPeriod <= 0
    THEN Throw("Total periods must be greater than zero")
    ELSE IF startingBaseFeeBps > MAX_FEE_BPS
    THEN Throw("startingBaseFeeBps exceeds maximum allowed value")
    ELSE IF endingBaseFeeBps > startingBaseFeeBps
    THEN Throw("endingBaseFeeBps bps must be less than or equal to startingBaseFeeBps bps")
    ELSE IF numberOfPeriod = 0 \/ totalDuration = 0
    THEN Throw("numberOfPeriod and totalDuration must both greater than zero")
    ELSE LET maxBaseFeeNumerator == bpsToFeeNumerator(startingBaseFeeBps)
             minBaseFeeNumerator == bpsToFeeNumerator(endingBaseFeeBps)
             periodFrequency == totalDuration \div numberOfPeriod
             reductionFactor ==
                 IF baseFeeMode = FeeSchedulerLinear
                 THEN TruncDiv(maxBaseFeeNumerator - minBaseFeeNumerator,
                               numberOfPeriod)
                 ELSE ExponentialReductionFactor(startingBaseFeeBps,
                                                 endingBaseFeeBps)
         IN  Ret(BaseFee(maxBaseFeeNumerator, numberOfPeriod, periodFrequency,
                         reductionFactor, baseFeeMode))

getRateLimiterParams(baseFeeBps, feeIncrementBps, referenceAmount, maxLimiterDuration, tokenQuoteDecimal, activationType) ==
    LET cliffFeeNumerator == bpsToFeeNumerator(baseFeeBps)
        feeIncrementNumerator == bpsToFeeNumerator(feeIncrementBps)
    IN  IF baseFeeBps <= 0 \/ feeIncrementBps <= 0 \/ referenceAmount <= 0
           \/ maxLimiterDuration <= 0
        THEN Throw("All rate limiter parameters must be greater than zero")
        ELSE IF baseFeeBps > MAX_FEE_BPS
        THEN Throw("Base fee exceeds maximum allowed value")
        ELSE IF feeIncrementBps > MAX_FEE_BPS
        THEN Throw("Fee increment exceeds maximum allowed value")
        ELSE IF feeIncrementNumerator >= FEE_DENOMINATOR
        THEN Throw("Fee increment numerator must be less than FEE_DENOMINATOR")
        ELSE LET deltaNumerator == MAX_FEE_NUMERATOR - cliffFeeNumerator
                 maxIndex == deltaNumerator \div feeIncrementNumerator
             IN  IF maxIndex < 1
                 THEN Throw("Fee increment is too large for the given base fee")
                 ELSE IF cliffFeeNumerator < MIN_FEE_NUMERATOR
                         \/ cliffFeeNumerator > MAX_FEE_NUMERATOR
                 THEN Throw("Base fee must be between 0.01% and 99%")
                 ELSE LET maxDuration ==
                              IF activationType = ActivationSlot
                              THEN MAX_RATE_LIMITER_DURATION_IN_SLOTS
                              ELSE MAX_RATE_LIMITER_DURATION_IN_SECONDS
                      IN  IF maxLimiterDuration > maxDuration
                          THEN Throw("Max duration exceeds maximum allowed value")
                          ELSE Ret(BaseFee(cliffFeeNumerator, feeIncrementBps,
                                       maxLimiterDuration,
                                       convertToLamports(DecInt(referenceAmount),
                                                         tokenQuoteDecimal),
                                       RateLimiter))

\* baseFeeParams: baseFeeMode, hasRateLimiterParam / rateLimiterParam,
\* hasFeeSchedulerParam / feeSchedulerParam (an optional field is a flag
\* and a value)
getBaseFeeParams(baseFeeParams, tokenQuoteDecimal, activationType) ==
    IF baseFeeParams.baseFeeMode = RateLimiter
    THEN IF ~baseFeeParams.hasRateLimiterParam
         THEN Throw("Rate limiter parameters are required for RateLimiter mode")
         ELSE LET r == baseFeeParams.rateLimiterParam
              IN  getRateLimiterParams(r.baseFeeBps, r.feeIncrementBps,
                      r.referenceAmount, r.maxLimiterDuration,
                      tokenQuoteDecimal, activationType)
    ELSE IF ~baseFeeParams.hasFeeSchedulerParam
         THEN Throw("Fee scheduler parameters are required for FeeScheduler mode")
         ELSE LET f == baseFeeParams.feeSchedulerParam
              IN  getFeeSchedulerParams(f.startingFeeBps, f.endingFeeBps,
                      baseFeeParams.baseFeeMode, f.numberOfPeriod,
                      f.totalDuration)

(***************************************************************************)
(* Vesting and migrated-pool fee (helpers/common.ts)                       *)
(***************************************************************************)
LockedVesting(amountPerPeriod, cliffDuration, frequency, numberOfPeriod, cliffUnlockAmount) ==
    [amountPerPeriod |-> amountPerPeriod,
     cliffDurationFromMigrationTime |-> cliffDuration,
     frequency |-> frequency, numberOfPeriod |-> numberOfPeriod,
     cliffUnlockAmount |-> cliffUnlockAmount]

\* getLockedVestingParams with the remainder of the rounding left out of the
\* cliff
getLockedVestingParamsWithoutRemainder(totalLockedVestingAmount, numberOfVestingPeriod, cliffUnlockAmount, totalVestingDuration, cliffDurationFromMigrationTime, tokenBaseDecimal) ==
    IF totalLockedVestingAmount = 0
    THEN Ret(LockedVesting(0, 0, 0, 0, 0))
    ELSE IF totalLockedVestingAmount = cliffUnlockAmount
    THEN Ret(LockedVesting(convertToLamports(DecInt(1), tokenBaseDecimal),
                 cliffDurationFromMigrationTime, 1, 1,
                 convertToLamports(DecInt(totalLockedVestingAmount - 1),
                                   tokenBaseDecimal)))
    ELSE IF numberOfVestingPeriod <= 0
    THEN Throw("Total periods must be greater than zero")
    ELSE IF numberOfVestingPeriod = 0 \/ totalVestingDuration = 0
    THEN Throw("numberOfPeriod and totalVestingDuration must both be greater than zero")
    ELSE IF cliffUnlockAmount > totalLockedVestingAmount
    THEN Throw("Cliff unlock amount cannot be greater than total locked vesting amount")
    ELSE Ret(LockedVesting(
                 convertToLamports(
                     DecInt((totalLockedVestingAmount - cliffUnlockAmount)
                                \div numberOfVestingPeriod),
                     tokenBaseDecimal),
                 cliffDurationFromMigrationTime,
                 totalVestingDuration \div numberOfVestingPeriod,
                 numberOfVestingPeriod,
                 convertToLamports(DecInt(cliffUnlockAmount), tokenBaseDecimal)))

getLockedVestingParams(totalLockedVestingAmount, numberOfVestingPeriod, cliffUnlockAmount, totalVestingDuration, cliffDurationFromMigrationTime, tokenBaseDecimal) ==
    IF totalLockedVestingAmount = 0
    THEN Ret(LockedVesting(0, 0, 0, 0, 0))
    ELSE IF totalLockedVestingAmount = cliffUnlockAmount
    THEN Ret(LockedVesting(convertToLamports(DecInt(1), tokenBaseDecimal),
                 cliffDurationFromMigrationTime, 1, 1,
                 convertToLamports(DecInt(totalLockedVestingAmount - 1),
                                   tokenBaseDecimal)))
    ELSE IF numberOfVestingPeriod <= 0
    THEN Throw("Total periods must be greater than zero")
    ELSE IF numberOfVestingPeriod = 0 \/ totalVestingDuration = 0
    THEN Throw("numberOfPeriod and totalVestingDuration must both be greater than zero")
    ELSE IF cliffUnlockAmount > totalLockedVestingAmount
    THEN Throw("Cliff unlock amount cannot be greater than total locked vesting amount")
    ELSE LET roundedAmountPerPeriod ==
                 (totalLockedVestingAmount - cliffUnlockAmount)
                     \div numberOfVestingPeriod
             totalPeriodicAmount == roundedAmountPerPeriod * numberOfVestingPeriod
             remainder == totalLockedVestingAmount
                              - (cliffUnlockAmount + totalPeriodicAmount)
             adjustedCliffUnlockAmount == cliffUnlockAmount + remainder
             periodFrequency == totalVestingDuration \div numberOfVestingPeriod
         IN  Ret(LockedVesting(
                     convertToLamports(DecInt(roundedAmountPerPeriod), tokenBaseDecimal),
                     cliffDurationFromMigrationTime, periodFrequency,
                     numberOfVestingPeriod,
                     convertToLamports(DecInt(adjustedCliffUnlockAmount),
                                       tokenBaseDecimal)))

\* a migratedPoolFee argument: defined or undefined
MigratedPoolFee(collectFeeMode, dynamicFee, poolFeeBps) ==
    [defined |-> TRUE, collectFeeMode |-> collectFeeMode,
     dynamicFee |-> dynamicFee, poolFeeBps |-> poolFeeBps]
UndefinedPoolFee ==
    [defined |-> FALSE, collectFeeMode |-> 0, dynamicFee |-> 0, poolFeeBps |-> 0]

getMigratedPoolFeeParams(migrationOption, migrationFeeOption, migratedPoolFee) ==
    LET defaultFeeParams == MigratedPoolFee(0, 0, 0)
    IN  IF migrationOption = MET_DAMM THEN defaultFeeParams
        ELSE IF migrationOption = MET_DAMM_V2
        THEN IF migrationFeeOption = Customizable THEN migratedPoolFee
             ELSE defaultFeeParams
        ELSE defaultFeeParams

(***************************************************************************)
(* helpers/common.ts: prices and market caps                               *)
(***************************************************************************)
\* floor(sqrt(price / 10^(tokenADecimal - tokenBDecimal)) * 2^64)
getSqrtPriceFromPrice(price, tokenADecimal, tokenBDecimal) ==
    IF price.n < 0 THEN Throw("Invalid number")
    ELSE LET adjustedByDecimals ==
                 DecDiv(price, Dec(TenPow(tokenADecimal), TenPow(tokenBDecimal)))
         IN  Ret(ISqrt((adjustedByDecimals.n * Q128) \div adjustedByDecimals.d))

getSqrtPriceFromMarketCap(marketCap, totalSupply, tokenBaseDecimal, tokenQuoteDecimal) ==
    IF totalSupply <= 0 THEN Throw("Invalid number")
    ELSE getSqrtPriceFromPrice(Dec(marketCap, totalSupply), tokenBaseDecimal,
                               tokenQuoteDecimal)

\* sqrtRatio * (100 - vesting% - leftover%) / (1 + sqrtRatio),
\* sqrtRatio = sqrt(initialMarketCap / migrationMarketCap)
getPercentageSupplyOnMigration(initialMarketCap, migrationMarketCap, lockedVesting, totalLeftover, totalTokenSupply) ==
    LET sqrtRatio == DecSqrt(Dec(initialMarketCap, migrationMarketCap))
        totalVestingAmount == getTotalVestingAmount(lockedVesting)
        \* 100 - vestingPercentage - leftoverPercentage
        free == Dec(100 * (totalTokenSupply - totalVestingAmount - totalLeftover),
                    totalTokenSupply)
    IN  DecDiv(DecMul(sqrtRatio, free),
               Dec(sqrtRatio.n + sqrtRatio.d, sqrtRatio.d))

\* migrationMarketCap * percentageSupplyOnMigration / 100
getMigrationQuoteAmount(migrationMarketCap, percentageSupplyOnMigration) ==
    DecMul(DecInt(migrationMarketCap),
           DecMul(percentageSupplyOnMigration, Dec(1, 100)))

\* migrationQuoteAmount * 100 / (100 - migrationFeePercent)
getMigrationQuoteThresholdFromMigrationQuoteAmount(migrationQuoteAmount, migrationFeePercent) ==
    DecMul(migrationQuoteAmount, Dec(100, 100 - migrationFeePercent))

(***************************************************************************)
(* helpers/common.ts: total supply, dynamic fee, rate limiter window       *)
(***************************************************************************)
\* arguments are bn.js values
\* getTotalTokenSupply that takes a sum of 64 bits for an overflow too
getTotalTokenSupplyBelow64Bits(swapBaseAmount, migrationBaseThreshold, lockedVestingParams) ==
    LET totalAmount ==
            BNadd(BNadd(swapBaseAmount, migrationBaseThreshold),
                  BNadd(lockedVestingParams.cliffUnlockAmount,
                        BNmul(lockedVestingParams.amountPerPeriod,
                              lockedVestingParams.numberOfPeriod)))
    IN  IF BNisNeg(totalAmount) \/ BNbitLength(totalAmount) >= 64
        THEN Throw("Math overflow")
        ELSE Ret(totalAmount)

getTotalTokenSupply(swapBaseAmount, migrationBaseThreshold, lockedVestingParams) ==
    LET totalCirculatingAmount == BNadd(swapBaseAmount, migrationBaseThreshold)
        totalLockedVestingAmount ==
            BNadd(lockedVestingParams.cliffUnlockAmount,
                  BNmul(lockedVestingParams.amountPerPeriod,
                        lockedVestingParams.numberOfPeriod))
        totalAmount == BNadd(totalCirculatingAmount, totalLockedVestingAmount)
    IN  IF BNisNeg(totalAmount) \/ BNbitLength(totalAmount) > 64
        THEN Throw("Math overflow")
        ELSE Ret(totalAmount)

DYNAMIC_FEE_FILTER_PERIOD_DEFAULT == 10
DYNAMIC_FEE_DECAY_PERIOD_DEFAULT == 120
DYNAMIC_FEE_REDUCTION_FACTOR_DEFAULT == 5000
MAX_DYNAMIC_FEE_PERCENTAGE == 20
DYNAMIC_FEE_SCALING_FACTOR == BNmul(BN(100000), BN(1000000))
DYNAMIC_FEE_ROUNDING_OFFSET == BNsub(DYNAMIC_FEE_SCALING_FACTOR, BN(1))
BIN_STEP_BPS_DEFAULT == 1
MAX_PRICE_CHANGE_BPS_DEFAULT == 1500

\* getDynamicFeeParams with a maximum of 25% of the base fee numerator
getDynamicFeeParamsAt25Percent(baseFeeBps, maxPriceChangeBps) ==
    IF maxPriceChangeBps > MAX_PRICE_CHANGE_BPS_DEFAULT
    THEN Throw("maxPriceChangeBps must be less than or equal to 1500")
    ELSE LET sqrtPriceRatio ==
                 ISqrt((BASIS_POINT_MAX + maxPriceChangeBps) * BASIS_POINT_MAX)
             maxVolatilityAccumulator ==
                 (sqrtPriceRatio - BASIS_POINT_MAX) * 2 * BASIS_POINT_MAX
             vfaBin == BNmul(BN(maxVolatilityAccumulator), BN(BIN_STEP_BPS_DEFAULT))
             vFee == BNsub(BNmul(BNdiv(BNmul(BN(bpsToFeeNumerator(baseFeeBps)),
                                             BN(25)), BN(100)),
                                 DYNAMIC_FEE_SCALING_FACTOR),
                           DYNAMIC_FEE_ROUNDING_OFFSET)
         IN  IF BNisZero(vfaBin) THEN Throw("Assertion failed")
             ELSE Ret([binStep |-> BIN_STEP_BPS_DEFAULT,
                       filterPeriod |-> DYNAMIC_FEE_FILTER_PERIOD_DEFAULT,
                       decayPeriod |-> DYNAMIC_FEE_DECAY_PERIOD_DEFAULT,
                       reductionFactor |-> DYNAMIC_FEE_REDUCTION_FACTOR_DEFAULT,
                       maxVolatilityAccumulator |-> maxVolatilityAccumulator,
                       variableFeeControl |->
                           BNdiv(vFee, BNmul(vfaBin, vfaBin))])

\* The source takes floor(sqrt(priceRatio) * 2^64), subtracts ONE_Q64 and
\* divides by BIN_STEP_BPS_U128_DEFAULT = floor(2^64 / BASIS_POINT_MAX): the
\* number of whole basis points in sqrt(priceRatio) - 1.  The model takes the
\* square root at resolution BASIS_POINT_MAX, where that divisor is 1.
getDynamicFeeParams(baseFeeBps, maxPriceChangeBps) ==
    IF maxPriceChangeBps > MAX_PRICE_CHANGE_BPS_DEFAULT
    THEN Throw("maxPriceChangeBps must be less than or equal to 1500")
    ELSE LET sqrtPriceRatio ==
                 ISqrt((BASIS_POINT_MAX + maxPriceChangeBps) * BASIS_POINT_MAX)
             deltaBinId == ((sqrtPriceRatio - BASIS_POINT_MAX) \div 1) * 2
             maxVolatilityAccumulator == deltaBinId * BASIS_POINT_MAX
             vfaBin == BNmul(BN(maxVolatilityAccumulator), BN(BIN_STEP_BPS_DEFAULT))
             squareVfaBin == BNmul(vfaBin, vfaBin)
             baseFeeNumerator == BN(bpsToFeeNumerator(baseFeeBps))
             maxDynamicFeeNumerator ==
                 BNdiv(BNmul(baseFeeNumerator, BN(20)), BN(100))
             vFee == BNsub(BNmul(maxDynamicFeeNumerator, DYNAMIC_FEE_SCALING_FACTOR),
                           DYNAMIC_FEE_ROUNDING_OFFSET)
         IN  IF BNisZero(squareVfaBin) THEN Throw("Assertion failed")
             ELSE Ret([binStep |-> BIN_STEP_BPS_DEFAULT,
                       filterPeriod |-> DYNAMIC_FEE_FILTER_PERIOD_DEFAULT,
                       decayPeriod |-> DYNAMIC_FEE_DECAY_PERIOD_DEFAULT,
                       reductionFactor |-> DYNAMIC_FEE_REDUCTION_FACTOR_DEFAULT,
                       maxVolatilityAccumulator |-> maxVolatilityAccumulator,
                       variableFeeControl |-> BNdiv(vFee, squareVfaBin)])

\* checkRateLimiterApplied with the last point of the window left out
checkRateLimiterAppliedBeforeEnd(baseFeeMode, swapBaseForQuote, currentPoint, activationPoint, maxLimiterDuration) ==
    /\ baseFeeMode = RateLimiter
    /\ ~swapBaseForQuote
    /\ currentPoint >= activationPoint
    /\ currentPoint < activationPoint + maxLimiterDuration

checkRateLimiterApplied(baseFeeMode, swapBaseForQuote, currentPoint, activationPoint, maxLimiterDuration) ==
    /\ baseFeeMode = RateLimiter
    /\ ~swapBaseForQuote
    /\ currentPoint >= activationPoint
    /\ currentPoint <= activationPoint + maxLimiterDuration

\* enum TradeDirection
BaseToQuote == 0
QuoteToBase == 1

\* math/rateLimiter.ts (not in src/, modelled from spec section 4.3): the
\* limiter applies to a quote-to-base trade at a point within
\* [activationPoint, activationPoint + maxLimiterDuration]
isRateLimiterApplied(currentPoint, activationPoint, tradeDirection, maxLimiterDuration, referenceAmount, feeIncrementBps) ==
    /\ tradeDirection = QuoteToBase
    /\ currentPoint >= activationPoint
    /\ currentPoint <= activationPoint + maxLimiterDuration

\* PoolService.swap that never gives the instruction a remaining account
swapWithoutRemainingAccounts(baseFee, activationPoint, swapBaseForQuote, currentPoint) ==
    LET rateLimiterApplied ==
            IF baseFee.baseFeeMode = RateLimiter
            THEN isRateLimiterApplied(currentPoint, activationPoint,
                     IF swapBaseForQuote THEN BaseToQuote ELSE QuoteToBase,
                     baseFee.secondFactor, baseFee.thirdFactor,
                     baseFee.firstFactor)
            ELSE FALSE
    IN  Ret([rateLimiterApplied |-> rateLimiterApplied,
             remainingAccounts |-> 0])

\* PoolService.swap, the part that decides on the rate limiter: the flag
\* and the number of remaining accounts the instruction is given
swap(baseFee, activationPoint, swapBaseForQuote, currentPoint) ==
    LET rateLimiterApplied ==
            IF baseFee.baseFeeMode = RateLimiter
            THEN isRateLimiterApplied(currentPoint, activationPoint,
                     IF swapBaseForQuote THEN BaseToQuote ELSE QuoteToBase,
                     baseFee.secondFactor, baseFee.thirdFactor,
                     baseFee.firstFactor)
            ELSE FALSE
    IN  Ret([rateLimiterApplied |-> rateLimiterApplied,
             remainingAccounts |-> IF rateLimiterApplied THEN 1 ELSE 0])

\* Solves l0 * a1 + l1 * b1 = c1 and l0 * a2 + l1 * b2 = c2 with
\*   a1 = 1/p0 - 1/p1, b1 = 1/p1 - 1/p2, a2 = p1 - p0, b2 = p2 - p1:
\*   l0 = (c1 * b2 - c2 * b1) / (a1 * b2 - a2 * b1)
\*      = (c1 * p1 * p2 - c2) * p0 / ((p1 - p0) * (p2 - p0))
\*   l1 = (c1 * a2 - c2 * a1) / (b1 * a2 - b2 * a1)
\*      = (c2 - c1 * p0 * p1) * p2 / ((p2 - p1) * (p2 - p0))
\* TwoCurveLiquidity gives the two quotients with the sign Decimal keeps for
\* them: neg is what isNeg() answers (true also for -0 and -Infinity),
\* finite is false when the divisor is zero (the quotient is then infinite
\* or NaN).
Sign(x) == IF x > 0 THEN 1 ELSE IF x < 0 THEN -1 ELSE 0

TwoCurveLiquidity(p0, p1, p2, c1, c2) ==
    LET \* signs of the two numerators and of the divisor a1 * b2 - a2 * b1
        \* (the other divisor is its negation)
        n0 == Sign(p2 - p1) * Sign(c1 * p1 * p2 - c2)
        n1 == Sign(p1 - p0) * Sign(c1 * p0 * p1 - c2)
        d == Sign(p1 - p0) * Sign(p2 - p1) * Sign(p2 - p0)
    IN  IF d = 0
        THEN [finite |-> FALSE, l0 |-> DecInt(0), l1 |-> DecInt(0),
              neg0 |-> n0 < 0, neg1 |-> n1 < 0]
        ELSE [finite |-> TRUE,
              l0 |-> Dec((c1 * p1 * p2 - c2) * p0, (p1 - p0) * (p2 - p0)),
              l1 |-> Dec((c2 - c1 * p0 * p1) * p2, (p2 - p1) * (p2 - p0)),
              neg0 |-> n0 * d < 0 \/ (n0 = 0 /\ d < 0),
              neg1 |-> n1 * d > 0 \/ (n1 = 0 /\ d > 0)]

\* getTwoCurve without the test of l0.isNeg() || l1.isNeg()
getTwoCurveUnchecked(migrationSqrtPrice, midSqrtPrice, initialSqrtPrice, swapAmount, migrationQuoteThreshold) ==
    LET l == TwoCurveLiquidity(initialSqrtPrice, midSqrtPrice,
                 migrationSqrtPrice, swapAmount, migrationQuoteThreshold * Q128)
    IN  IF initialSqrtPrice = 0 \/ midSqrtPrice = 0 \/ migrationSqrtPrice = 0
           \/ ~l.finite
        THEN Throw("Invalid character")
        ELSE Ret([isOk |-> TRUE, sqrtStartPrice |-> initialSqrtPrice,
                  curve |-> <<Seg(midSqrtPrice, DecFloor(l.l0)),
                              Seg(migrationSqrtPrice, DecFloor(l.l1))>>])

getTwoCurve(migrationSqrtPrice, midSqrtPrice, initialSqrtPrice, swapAmount, migrationQuoteThreshold) ==
    LET p0 == initialSqrtPrice
        p1 == midSqrtPrice
        p2 == migrationSqrtPrice
        c1 == swapAmount
        c2 == migrationQuoteThreshold * Q128
        l == TwoCurveLiquidity(p0, p1, p2, c1, c2)
    IN  IF p0 = 0 \/ p1 = 0 \/ p2 = 0
        THEN Throw("Invalid character")
        ELSE IF l.neg0 \/ l.neg1
        THEN Ret([isOk |-> FALSE, sqrtStartPrice |-> 0, curve |-> << >>])
        ELSE IF ~l.finite
        THEN Throw("Invalid character")
        ELSE Ret([isOk |-> TRUE, sqrtStartPrice |-> initialSqrtPrice,
                  curve |-> <<Seg(midSqrtPrice, DecFloor(l.l0)),
                              Seg(migrationSqrtPrice, DecFloor(l.l1))>>])

\* getTokenomics with a bonding curve supply that keeps the leftover
getTokenomicsKeepingLeftover(initialMarketCap, migrationMarketCap, totalLockedVestingAmount, totalLeftover, totalTokenSupply) ==
    LET sqrtRatio == DecSqrt(DecDiv(initialMarketCap, migrationMarketCap))
        migrationSupply ==
            DecFloor(DecDiv(DecMul(DecMul(sqrtRatio,
                         DecInt(totalTokenSupply - totalLockedVestingAmount
                                    - totalLeftover)), Dec(1, 1)),
                     DecAdd(DecInt(1), sqrtRatio)))
    IN  IF migrationMarketCap.n = 0 \/ totalTokenSupply = 0
        THEN Throw("Invalid character")
        ELSE Ret([bondingCurveSupply |->
                      totalTokenSupply - migrationSupply
                          - totalLockedVestingAmount,
                  migrationSupply |-> migrationSupply,
                  leftoverSupply |-> totalLeftover,
                  lockedVestingSupply |-> totalLockedVestingAmount])

\* A zero migrationMarketCap or totalTokenSupply makes a quotient infinite
\* or NaN, which new BN(...) does not accept.
getTokenomics(initialMarketCap, migrationMarketCap, totalLockedVestingAmount, totalLeftover, totalTokenSupply) ==
    LET marketCapRatio == DecDiv(initialMarketCap, migrationMarketCap)
        sqrtRatio == DecSqrt(marketCapRatio)
        vestingPercentage ==
            DecDiv(DecMul(DecInt(totalLockedVestingAmount), DecInt(100)),
                   DecInt(totalTokenSupply))
        leftoverPercentage ==
            DecDiv(DecMul(DecInt(totalLeftover), DecInt(100)),
                   DecInt(totalTokenSupply))
        percentageSupplyOnMigration ==
            DecAdd(DecMul(DecInt(100), sqrtRatio),
                   DecMul(DecInt(-1),
                          DecMul(DecAdd(vestingPercentage, leftoverPercentage),
                                 sqrtRatio)))
        denominator == DecAdd(DecInt(1), sqrtRatio)
        migrationSupplyDecimal ==
            DecDiv(DecMul(DecDiv(percentageSupplyOnMigration, denominator),
                          DecInt(totalTokenSupply)),
                   DecInt(100))
        migrationSupply == DecFloor(migrationSupplyDecimal)
        bondingCurveSupply ==
            totalTokenSupply - migrationSupply - totalLeftover
                - totalLockedVestingAmount
    IN  IF migrationMarketCap.n = 0 \/ totalTokenSupply = 0
           \/ marketCapRatio.n < 0
        THEN Throw("Invalid character")
        ELSE Ret([bondingCurveSupply |-> bondingCurveSupply,
                  migrationSupply |-> migrationSupply,
                  leftoverSupply |-> totalLeftover,
                  lockedVestingSupply |-> totalLockedVestingAmount])

(***************************************************************************)
(* build-curve: the configuration a strategy returns                       *)
(***************************************************************************)
\* an optional argument: given or undefined
Some(x) == [defined |-> TRUE, v |-> x]
None == [defined |-> FALSE, v |-> 0]
\* x ?? 0
OrZero(x) == IF x.defined THEN x.v ELSE 0

\* the instructionParams literal every strategy ends with
InstructionParams(p, baseFee, lockedVesting, migratedPoolFeeParams, migrationQuoteThresholdInLamport, totalSupply, sqrtStartPrice, curve) ==
    [poolFees |->
         [baseFee |-> baseFee,
          dynamicFee |->
              IF p.dynamicFeeEnabled
              THEN Some(getDynamicFeeParams(
                       IF p.baseFeeParams.baseFeeMode = RateLimiter
                       THEN p.baseFeeParams.rateLimiterParam.baseFeeBps
                       ELSE p.baseFeeParams.feeSchedulerParam.endingFeeBps,
                       MAX_PRICE_CHANGE_BPS_DEFAULT).v)
              ELSE None],
     activationType |-> p.activationType,
     migrationOption |-> p.migrationOption,
     tokenDecimal |-> p.tokenBaseDecimal,
     migrationQuoteThreshold |-> migrationQuoteThresholdInLamport,
     sqrtStartPrice |-> sqrtStartPrice,
     lockedVesting |-> lockedVesting,
     migrationFeeOption |-> p.migrationFeeOption,
     tokenSupply |-> [preMigrationTokenSupply |-> totalSupply,
                      postMigrationTokenSupply |-> totalSupply],
     pausableMode |-> OrZero(p.pausableMode),
     noMigrationPartnerSurplusPercentage |->
         OrZero(p.noMigrationPartnerSurplusPercentage),
     noMigrationCreatorSurplusPercentage |->
         OrZero(p.noMigrationCreatorSurplusPercentage),
     noMigrationProtocolSurplusPercentage |->
         OrZero(p.noMigrationProtocolSurplusPercentage),
     migrationFee |-> p.migrationFee,
     migratedPoolFee |-> [collectFeeMode |-> migratedPoolFeeParams.collectFeeMode,
                          dynamicFee |-> migratedPoolFeeParams.dynamicFee,
                          poolFeeBps |-> migratedPoolFeeParams.poolFeeBps],
     curve |-> curve]

(***************************************************************************)
(* build-curve: buildCurve and buildCurveWithMarketCap.  A ...Locals       *)
(* operator runs the function body and yields its local values next to the *)
(* instructionParams it returns.                                           *)
(***************************************************************************)
\* what a strategy returns from the locals record its body ended with
ReturnOf(r) == IF r.ok THEN Ret(r.v.instructionParams) ELSE r

\* buildCurve down to migrationQuoteAmountInLamport
buildCurvePrices(p) ==
    LET baseFee == getBaseFeeParams(p.baseFeeParams, p.tokenQuoteDecimal,
                                    p.activationType)
        v == p.lockedVestingParam
        lockedVesting ==
            getLockedVestingParams(v.totalLockedVestingAmount,
                v.numberOfVestingPeriod, v.cliffUnlockAmount,
                v.totalVestingDuration, v.cliffDurationFromMigrationTime,
                p.tokenBaseDecimal)
        migratedPoolFeeParams ==
            getMigratedPoolFeeParams(p.migrationOption, p.migrationFeeOption,
                                     p.migratedPoolFee)
        migrationBaseSupply ==
            DecMul(DecInt(p.totalTokenSupply),
                   DecMul(p.percentageSupplyOnMigration, Dec(1, 100)))
        totalSupply == convertToLamports(DecInt(p.totalTokenSupply),
                                         p.tokenBaseDecimal)
        migrationQuoteAmount ==
            getMigrationQuoteAmountFromMigrationQuoteThreshold(
                p.migrationQuoteThreshold, p.migrationFee.feePercentage)
        migrationPrice == DecDiv(migrationQuoteAmount, migrationBaseSupply)
        migrationQuoteThresholdInLamport ==
            convertToLamports(p.migrationQuoteThreshold, p.tokenQuoteDecimal)
        totalLeftover == convertToLamports(DecInt(p.leftover), p.tokenBaseDecimal)
        migrateSqrtPrice ==
            getSqrtPriceFromPrice(migrationPrice, p.tokenBaseDecimal,
                                  p.tokenQuoteDecimal)
        migrationQuoteAmountInLamport ==
            fromDecimalToBN(DecMul(migrationQuoteAmount,
                                   DecInt(TenPow(p.tokenQuoteDecimal))))
    IN  IF ~baseFee.ok THEN baseFee
        ELSE IF ~lockedVesting.ok THEN lockedVesting
        ELSE IF migrationBaseSupply.n = 0 THEN Throw("Invalid character")
        ELSE IF ~migrateSqrtPrice.ok THEN migrateSqrtPrice
        ELSE Ret([baseFee |-> baseFee.v, lockedVesting |-> lockedVesting.v,
                  migratedPoolFeeParams |-> migratedPoolFeeParams,
                  totalSupply |-> totalSupply,
                  migrationQuoteThresholdInLamport |->
                      migrationQuoteThresholdInLamport,
                  totalLeftover |-> totalLeftover,
                  migrateSqrtPrice |-> migrateSqrtPrice.v,
                  migrationQuoteAmountInLamport |->
                      migrationQuoteAmountInLamport])

\* buildCurve from migrationBaseAmount to the first curve, on the locals r
\* so far
buildCurveFirstCurve(p, r) ==
    IF ~r.ok THEN r
    ELSE LET l == r.v
             migrationBaseAmount ==
                 getMigrationBaseToken(l.migrationQuoteAmountInLamport,
                                       l.migrateSqrtPrice, p.migrationOption)
             totalVestingAmount == getTotalVestingAmount(l.lockedVesting)
             swapAmount == l.totalSupply - migrationBaseAmount.v
                               - totalVestingAmount - l.totalLeftover
             first == getFirstCurve(l.migrateSqrtPrice, migrationBaseAmount.v,
                                    swapAmount, l.migrationQuoteThresholdInLamport,
                                    p.migrationFee.feePercentage)
         IN  IF ~migrationBaseAmount.ok THEN migrationBaseAmount
             ELSE IF ~first.ok THEN first
             ELSE Ret(l @@ [migrationBaseAmount |-> migrationBaseAmount.v,
                            totalVestingAmount |-> totalVestingAmount,
                            swapAmount |-> swapAmount,
                            sqrtStartPrice |-> first.v.sqrtStartPrice,
                            curve |-> first.v.curve])

\* buildCurve from totalDynamicSupply to lastLiquidity
buildCurveLastLiquidity(p, r) ==
    IF ~r.ok THEN r
    ELSE LET l == r.v
             totalDynamicSupply ==
                 getTotalSupplyFromCurve(l.migrationQuoteThresholdInLamport,
                     l.sqrtStartPrice, l.curve, l.lockedVesting,
                     p.migrationOption, l.totalLeftover,
                     p.migrationFee.feePercentage)
             remainingAmount == l.totalSupply - totalDynamicSupply.v
             lastLiquidity ==
                 getInitialLiquidityFromDeltaBase(remainingAmount, MAX_SQRT_PRICE,
                                                  l.migrateSqrtPrice)
         IN  IF ~totalDynamicSupply.ok THEN totalDynamicSupply
             ELSE IF ~lastLiquidity.ok THEN lastLiquidity
             ELSE Ret(l @@ [lastLiquidity |-> lastLiquidity.v])

\* buildCurveReturn that pushes the last segment whatever its liquidity
buildCurveReturnAlwaysPushing(p, r) ==
    IF ~r.ok THEN r
    ELSE LET l == r.v
             curve == Append(l.curve, Seg(MAX_SQRT_PRICE, l.lastLiquidity))
         IN  Ret([totalSupply |-> l.totalSupply,
                  migrationBaseAmount |-> l.migrationBaseAmount,
                  totalVestingAmount |-> l.totalVestingAmount,
                  totalLeftover |-> l.totalLeftover,
                  swapAmount |-> l.swapAmount,
                  instructionParams |->
                      InstructionParams(p, l.baseFee, l.lockedVesting,
                          l.migratedPoolFeeParams,
                          l.migrationQuoteThresholdInLamport, l.totalSupply,
                          l.sqrtStartPrice, curve)])

\* buildCurve from the last segment of the curve to the return value
buildCurveReturn(p, r) ==
    IF ~r.ok THEN r
    ELSE LET l == r.v
             curve == IF l.lastLiquidity # 0
                      THEN Append(l.curve, Seg(MAX_SQRT_PRICE, l.lastLiquidity))
                      ELSE l.curve
         IN  Ret([totalSupply |-> l.totalSupply,
                  migrationBaseAmount |-> l.migrationBaseAmount,
                  totalVestingAmount |-> l.totalVestingAmount,
                  totalLeftover |-> l.totalLeftover,
                  swapAmount |-> l.swapAmount,
                  instructionParams |->
                      InstructionParams(p, l.baseFee, l.lockedVesting,
                          l.migratedPoolFeeParams,
                          l.migrationQuoteThresholdInLamport, l.totalSupply,
                          l.sqrtStartPrice, curve)])

buildCurveLocals(p) ==
    buildCurveReturn(p,
        buildCurveLastLiquidity(p, buildCurveFirstCurve(p, buildCurvePrices(p))))

buildCurve(p) == ReturnOf(buildCurveLocals(p))

\* the arguments buildCurveWithMarketCap hands to buildCurve
buildCurveWithMarketCapParams(p) ==
    LET v == p.lockedVestingParam
        lockedVesting ==
            getLockedVestingParams(v.totalLockedVestingAmount,
                v.numberOfVestingPeriod, v.cliffUnlockAmount,
                v.totalVestingDuration, v.cliffDurationFromMigrationTime,
                p.tokenBaseDecimal)
        totalLeftover == convertToLamports(DecInt(p.leftover), p.tokenBaseDecimal)
        totalSupply == convertToLamports(DecInt(p.totalTokenSupply),
                                         p.tokenBaseDecimal)
        percentageSupplyOnMigration ==
            getPercentageSupplyOnMigration(p.initialMarketCap,
                p.migrationMarketCap, lockedVesting.v, totalLeftover, totalSupply)
        migrationQuoteAmount ==
            getMigrationQuoteAmount(p.migrationMarketCap,
                                    percentageSupplyOnMigration)
        migrationQuoteThreshold ==
            getMigrationQuoteThresholdFromMigrationQuoteAmount(
                migrationQuoteAmount, p.migrationFee.feePercentage)
    IN  IF ~lockedVesting.ok THEN lockedVesting
        ELSE Ret([p EXCEPT !.percentageSupplyOnMigration =
                               percentageSupplyOnMigration,
                           !.migrationQuoteThreshold = migrationQuoteThreshold])

\* the call of buildCurve that buildCurveWithMarketCap ends with, on the
\* arguments q made for it
buildCurveOf(q) == IF ~q.ok THEN q ELSE buildCurveLocals(q.v)

buildCurveWithMarketCapLocals(p) == buildCurveOf(buildCurveWithMarketCapParams(p))

buildCurveWithMarketCap(p) == ReturnOf(buildCurveWithMarketCapLocals(p))

(***************************************************************************)
(* build-curve: buildCurveWithTwoSegments and buildCurveWithMidPrice       *)
(***************************************************************************)
\* The statements of buildCurveWithTwoSegments up to initialSqrtPrice;
\* buildCurveWithMidPrice repeats them word for word.
MarketCapLocals(p) ==
    LET baseFee == getBaseFeeParams(p.baseFeeParams, p.tokenQuoteDecimal,
                                    p.activationType)
        v == p.lockedVestingParam
        lockedVesting ==
            getLockedVestingParams(v.totalLockedVestingAmount,
                v.numberOfVestingPeriod, v.cliffUnlockAmount,
                v.totalVestingDuration, v.cliffDurationFromMigrationTime,
                p.tokenBaseDecimal)
        migratedPoolFeeParams ==
            getMigratedPoolFeeParams(p.migrationOption, p.migrationFeeOption,
                                     p.migratedPoolFee)
        migrationBaseSupply ==
            (p.totalTokenSupply * p.percentageSupplyOnMigration) \div 100
        totalSupply == convertToLamports(DecInt(p.totalTokenSupply),
                                         p.tokenBaseDecimal)
        migrationQuoteAmount ==
            getMigrationQuoteAmount(p.migrationMarketCap,
                                    DecInt(p.percentageSupplyOnMigration))
        migrationQuoteThreshold ==
            getMigrationQuoteThresholdFromMigrationQuoteAmount(
                migrationQuoteAmount, p.migrationFee.feePercentage)
        migrationPrice == DecDiv(migrationQuoteAmount, DecInt(migrationBaseSupply))
        migrationQuoteThresholdInLamport ==
            fromDecimalToBN(DecMul(migrationQuoteThreshold,
                                   DecInt(TenPow(p.tokenQuoteDecimal))))
        migrationQuoteAmountInLamport ==
            fromDecimalToBN(DecMul(migrationQuoteAmount,
                                   DecInt(TenPow(p.tokenQuoteDecimal))))
        migrateSqrtPrice ==
            getSqrtPriceFromPrice(migrationPrice, p.tokenBaseDecimal,
                                  p.tokenQuoteDecimal)
        migrationBaseAmount ==
            getMigrationBaseToken(migrationQuoteAmountInLamport,
                                  migrateSqrtPrice.v, p.migrationOption)
        totalVestingAmount == getTotalVestingAmount(lockedVesting.v)
        totalLeftover == convertToLamports(DecInt(p.leftover), p.tokenBaseDecimal)
        swapAmount == totalSupply - migrationBaseAmount.v - totalVestingAmount
                          - totalLeftover
        initialSqrtPrice ==
            getSqrtPriceFromMarketCap(p.initialMarketCap, p.totalTokenSupply,
                                      p.tokenBaseDecimal, p.tokenQuoteDecimal)
    IN  IF ~baseFee.ok THEN baseFee
        ELSE IF ~lockedVesting.ok THEN lockedVesting
        ELSE IF migrationBaseSupply = 0 THEN Throw("Invalid character")
        ELSE IF ~migrateSqrtPrice.ok THEN migrateSqrtPrice
        ELSE IF ~migrationBaseAmount.ok THEN migrationBaseAmount
        ELSE IF ~initialSqrtPrice.ok THEN initialSqrtPrice
        ELSE Ret([baseFee |-> baseFee.v, lockedVesting |-> lockedVesting.v,
                  migratedPoolFeeParams |-> migratedPoolFeeParams,
                  totalSupply |-> totalSupply,
                  migrationQuoteThresholdInLamport |->
                      migrationQuoteThresholdInLamport,
                  migrateSqrtPrice |-> migrateSqrtPrice.v,
                  migrationBaseAmount |-> migrationBaseAmount.v,
                  totalVestingAmount |-> totalVestingAmount,
                  totalLeftover |-> totalLeftover,
                  swapAmount |-> swapAmount,
                  initialSqrtPrice |-> initialSqrtPrice.v])

\* [midSqrtPrice3, midSqrtPrice2, midSqrtPrice1]:
\* floor((p1^3 * p2)^(1/4)), floor((p1 * p2^3)^(1/4)), floor(sqrt(p1 * p2))
midPrices(initialSqrtPrice, migrateSqrtPrice) ==
    LET midSqrtPrice1 == ISqrt(migrateSqrtPrice * initialSqrtPrice)
        midSqrtPrice2 ==
            ISqrt(ISqrt(initialSqrtPrice * migrateSqrtPrice * migrateSqrtPrice
                            * migrateSqrtPrice))
        midSqrtPrice3 ==
            ISqrt(ISqrt(initialSqrtPrice * initialSqrtPrice * initialSqrtPrice
                            * migrateSqrtPrice))
    IN  <<midSqrtPrice3, midSqrtPrice2, midSqrtPrice1>>

RECURSIVE TwoSegmentsLoopLast(_, _, _)
\* TwoSegmentsLoop without the break: the last result that is ok
TwoSegmentsLoopLast(i, mids, m) ==
    IF i > Len(mids)
    THEN Ret([isOk |-> FALSE, sqrtStartPrice |-> 0, curve |-> << >>, used |-> 0])
    ELSE LET result == getTwoCurve(m.migrateSqrtPrice, mids[i],
                                   m.initialSqrtPrice, m.swapAmount,
                                   m.migrationQuoteThresholdInLamport)
             later == TwoSegmentsLoopLast(i + 1, mids, m)
         IN  IF ~result.ok THEN result
             ELSE IF ~later.ok THEN later
             ELSE IF later.v.isOk THEN later
             ELSE IF result.v.isOk
             THEN Ret([isOk |-> TRUE, sqrtStartPrice |-> result.v.sqrtStartPrice,
                       curve |-> result.v.curve, used |-> i])
             ELSE later

RECURSIVE TwoSegmentsLoop(_, _, _)
\* the for loop over midPrices from index i on: the first result that is ok,
\* or the initial empty curve when none is
TwoSegmentsLoop(i, mids, m) ==
    IF i > Len(mids)
    THEN Ret([isOk |-> FALSE, sqrtStartPrice |-> 0, curve |-> << >>, used |-> 0])
    ELSE LET result == getTwoCurve(m.migrateSqrtPrice, mids[i],
                                   m.initialSqrtPrice, m.swapAmount,
                                   m.migrationQuoteThresholdInLamport)
         IN  IF ~result.ok THEN result
             ELSE IF result.v.isOk
             THEN Ret([isOk |-> TRUE, sqrtStartPrice |-> result.v.sqrtStartPrice,
                       curve |-> result.v.curve, used |-> i])
             ELSE TwoSegmentsLoop(i + 1, mids, m)

\* VerifyAndReturn without the check of leftOverDelta
VerifyAndReturnUnchecked(p, m, sqrtStartPrice, curve, used) ==
    Ret([totalSupply |-> m.totalSupply,
         migrationBaseAmount |-> m.migrationBaseAmount,
         totalVestingAmount |-> m.totalVestingAmount,
         totalLeftover |-> m.totalLeftover,
         swapAmount |-> m.swapAmount,
         used |-> used,
         instructionParams |->
             InstructionParams(p, m.baseFee, m.lockedVesting,
                 m.migratedPoolFeeParams, m.migrationQuoteThresholdInLamport,
                 m.totalSupply, sqrtStartPrice, curve)])

\* VerifyAndReturn accepting a delta equal to the leftover
VerifyAndReturnInclusive(p, m, sqrtStartPrice, curve, used) ==
    LET totalDynamicSupply ==
            getTotalSupplyFromCurve(m.migrationQuoteThresholdInLamport,
                sqrtStartPrice, curve, m.lockedVesting, p.migrationOption,
                m.totalLeftover, p.migrationFee.feePercentage)
        leftOverDelta == totalDynamicSupply.v - m.totalSupply
    IN  IF ~totalDynamicSupply.ok THEN totalDynamicSupply
        ELSE IF totalDynamicSupply.v > m.totalSupply
                /\ leftOverDelta > m.totalLeftover
        THEN Throw("leftOverDelta must be less than totalLeftover")
        ELSE VerifyAndReturnUnchecked(p, m, sqrtStartPrice, curve, used)

\* the verification both functions end with, then the return value
VerifyAndReturn(p, m, sqrtStartPrice, curve, used) ==
    LET totalDynamicSupply ==
            getTotalSupplyFromCurve(m.migrationQuoteThresholdInLamport,
                sqrtStartPrice, curve, m.lockedVesting, p.migrationOption,
                m.totalLeftover, p.migrationFee.feePercentage)
        leftOverDelta == totalDynamicSupply.v - m.totalSupply
    IN  IF ~totalDynamicSupply.ok THEN totalDynamicSupply
        ELSE IF totalDynamicSupply.v > m.totalSupply
                /\ ~(leftOverDelta < m.totalLeftover)
        THEN Throw("leftOverDelta must be less than totalLeftover")
        ELSE Ret([totalSupply |-> m.totalSupply,
                  migrationBaseAmount |-> m.migrationBaseAmount,
                  totalVestingAmount |-> m.totalVestingAmount,
                  totalLeftover |-> m.totalLeftover,
                  swapAmount |-> m.swapAmount,
                  used |-> used,
                  instructionParams |->
                      InstructionParams(p, m.baseFee, m.lockedVesting,
                          m.migratedPoolFeeParams,
                          m.migrationQuoteThresholdInLamport, m.totalSupply,
                          sqrtStartPrice, curve)])

\* buildCurveWithTwoSegments after the loop, on the locals m and the loop's
\* result
TwoSegmentsVerify(p, m, found) ==
    IF ~found.ok THEN found
    ELSE VerifyAndReturn(p, m, found.v.sqrtStartPrice, found.v.curve,
                         found.v.used)

\* buildCurveWithTwoSegments from midSqrtPrice1 on, on the locals m
TwoSegmentsFrom(p, m) ==
    IF ~m.ok THEN m
    ELSE TwoSegmentsVerify(p, m.v,
             TwoSegmentsLoop(1, midPrices(m.v.initialSqrtPrice,
                                          m.v.migrateSqrtPrice), m.v))

buildCurveWithTwoSegmentsLocals(p) == TwoSegmentsFrom(p, MarketCapLocals(p))

buildCurveWithTwoSegments(p) == ReturnOf(buildCurveWithTwoSegmentsLocals(p))

\* buildCurveWithMidPrice after getTwoCurve, on the locals m and its result
MidPriceVerify(p, m, result) ==
    IF ~result.ok THEN result
    ELSE VerifyAndReturn(p, m, result.v.sqrtStartPrice, result.v.curve,
                         IF result.v.isOk THEN 1 ELSE 0)

\* buildCurveWithMidPrice from getTwoCurve on, on the locals m and midSqrtPrice
MidPriceCurve(p, m, midSqrtPrice) ==
    IF ~midSqrtPrice.ok THEN midSqrtPrice
    ELSE MidPriceVerify(p, m,
             getTwoCurve(m.migrateSqrtPrice, midSqrtPrice.v, m.initialSqrtPrice,
                         m.swapAmount, m.migrationQuoteThresholdInLamport))

\* buildCurveWithMidPrice from midSqrtPrice on, on the locals m
MidPriceFrom(p, m) ==
    IF ~m.ok THEN m
    ELSE MidPriceCurve(p, m.v,
             getSqrtPriceFromPrice(p.midPrice, p.tokenBaseDecimal,
                                   p.tokenQuoteDecimal))

buildCurveWithMidPriceLocals(p) == MidPriceFrom(p, MarketCapLocals(p))

buildCurveWithMidPrice(p) == ReturnOf(buildCurveWithMidPriceLocals(p))

(***************************************************************************)
(* build-curve: buildCurveWithLiquidityWeights                             *)
(***************************************************************************)
\* floor of a decimal (helpers/utils.ts)
convertDecimalToBN(value) == DecFloor(value)

RECURSIVE SqrtPricesFrom(_, _, _)
\* the loop "finding all prices": NumWeights + 1 prices from pMin, each the
\* floor of qDecimal times the previous one
SqrtPricesFrom(i, currentPrice, qDecimal) ==
    IF i > NumWeights THEN << >>
    ELSE <<currentPrice>> \o
         SqrtPricesFrom(i + 1,
             convertDecimalToBN(DecMul(qDecimal, DecInt(currentPrice))), qDecimal)

RECURSIVE SumFactorFrom(_, _, _, _, _)
\* the loop adding k * (w1 + w2) for segments i..NumWeights
SumFactorFrom(i, sqrtPrices, liquidityWeights, migrationFeeFactor, pMax) ==
    IF i > NumWeights THEN DecInt(0)
    ELSE LET pi == sqrtPrices[i + 1]
             piMinus == sqrtPrices[i]
             k == liquidityWeights[i]
             w1 == DecTrunc(Dec(pi - piMinus, pi * piMinus), WeightScale)
             w2 == DecTrunc(DecMul(DecMul(DecInt(pi - piMinus), migrationFeeFactor),
                                   Dec(1, pMax * pMax)), WeightScale)
             weight == DecMul(DecInt(k), DecAdd(w1, w2))
         IN  DecAdd(weight,
                    SumFactorFrom(i + 1, sqrtPrices, liquidityWeights,
                                  migrationFeeFactor, pMax))

RECURSIVE CurveFromLowerPrices(_, _, _, _, _)
\* CurveFrom with each segment ending at its lower price
CurveFromLowerPrices(i, sqrtPrices, liquidityWeights, l1, pMax) ==
    IF i > NumWeights THEN << >>
    ELSE <<Seg(IF i < NumWeights THEN sqrtPrices[i] ELSE pMax,
               convertDecimalToBN(DecMul(l1, DecInt(liquidityWeights[i]))))>>
         \o CurveFromLowerPrices(i + 1, sqrtPrices, liquidityWeights, l1, pMax)

RECURSIVE CurveFromRoundedUp(_, _, _, _, _)
\* CurveFrom with each liquidity one above its floor
CurveFromRoundedUp(i, sqrtPrices, liquidityWeights, l1, pMax) ==
    IF i > NumWeights THEN << >>
    ELSE <<Seg(IF i < NumWeights THEN sqrtPrices[i + 1] ELSE pMax,
               convertDecimalToBN(DecMul(l1, DecInt(liquidityWeights[i]))) + 1)>>
         \o CurveFromRoundedUp(i + 1, sqrtPrices, liquidityWeights, l1, pMax)

RECURSIVE CurveFrom(_, _, _, _, _)
\* the loop "construct curve" for segments i..NumWeights
CurveFrom(i, sqrtPrices, liquidityWeights, l1, pMax) ==
    IF i > NumWeights THEN << >>
    ELSE <<Seg(IF i < NumWeights THEN sqrtPrices[i + 1] ELSE pMax,
               convertDecimalToBN(DecMul(l1, DecInt(liquidityWeights[i]))))>>
         \o CurveFrom(i + 1, sqrtPrices, liquidityWeights, l1, pMax)

\* buildCurveWithLiquidityWeights down to the loop finding all prices
LiquidityWeightsPrices(p) ==
    LET baseFee == getBaseFeeParams(p.baseFeeParams, p.tokenQuoteDecimal,
                                    p.activationType)
        v == p.lockedVestingParam
        lockedVesting ==
            getLockedVestingParams(v.totalLockedVestingAmount,
                v.numberOfVestingPeriod, v.cliffUnlockAmount,
                v.totalVestingDuration, v.cliffDurationFromMigrationTime,
                p.tokenBaseDecimal)
        migratedPoolFeeParams ==
            getMigratedPoolFeeParams(p.migrationOption, p.migrationFeeOption,
                                     p.migratedPoolFee)
        pMin == getSqrtPriceFromMarketCap(p.initialMarketCap, p.totalTokenSupply,
                                          p.tokenBaseDecimal, p.tokenQuoteDecimal)
        pMax == getSqrtPriceFromMarketCap(p.migrationMarketCap, p.totalTokenSupply,
                                          p.tokenBaseDecimal, p.tokenQuoteDecimal)
        priceRatio == Dec(pMax.v, pMin.v)
        \* priceRatio^(1/16), one root per segment
        qDecimal == DecRoot(priceRatio, NumWeights)
    IN  IF ~baseFee.ok THEN baseFee
        ELSE IF ~lockedVesting.ok THEN lockedVesting
        ELSE IF ~pMin.ok THEN pMin
        ELSE IF ~pMax.ok THEN pMax
        ELSE IF pMin.v = 0 \/ priceRatio.n < 0 THEN Throw("Invalid character")
        ELSE Ret([baseFee |-> baseFee.v, lockedVesting |-> lockedVesting.v,
                  migratedPoolFeeParams |-> migratedPoolFeeParams,
                  pMin |-> pMin.v, pMax |-> pMax.v,
                  sqrtPrices |-> SqrtPricesFrom(0, pMin.v, qDecimal)])

\* buildCurveWithLiquidityWeights from totalSupply to the loop constructing
\* the curve, on the locals r so far
LiquidityWeightsCurve(p, r) ==
    IF ~r.ok THEN r
    ELSE LET l == r.v
             totalSupply == convertToLamports(DecInt(p.totalTokenSupply),
                                              p.tokenBaseDecimal)
             totalLeftover == convertToLamports(DecInt(p.leftover),
                                                p.tokenBaseDecimal)
             totalVestingAmount == getTotalVestingAmount(l.lockedVesting)
             totalSwapAndMigrationAmount ==
                 totalSupply - totalVestingAmount - totalLeftover
             migrationFeeFactor == Dec(100 - p.migrationFee.feePercentage, 100)
             sumFactor == SumFactorFrom(1, l.sqrtPrices, p.liquidityWeights,
                                        migrationFeeFactor, l.pMax)
             l1 == DecDiv(DecInt(totalSwapAndMigrationAmount), sumFactor)
         IN  IF sumFactor.n = 0 THEN Throw("Invalid character")
             ELSE Ret(l @@ [totalSupply |-> totalSupply,
                            totalLeftover |-> totalLeftover,
                            totalVestingAmount |-> totalVestingAmount,
                            totalSwapAndMigrationAmount |->
                                totalSwapAndMigrationAmount,
                            curve |-> CurveFrom(1, l.sqrtPrices,
                                          p.liquidityWeights, l1, l.pMax)])

\* buildCurveWithLiquidityWeights from swapBaseAmount to
\* migrationQuoteThresholdInLamport
LiquidityWeightsMigration(p, r) ==
    IF ~r.ok THEN r
    ELSE LET l == r.v
             swapBaseAmount == getBaseTokenForSwap(l.pMin, l.pMax, l.curve)
             swapBaseAmountBuffer ==
                 getSwapAmountWithBuffer(swapBaseAmount.v, l.pMin, l.curve)
             migrationAmount ==
                 l.totalSwapAndMigrationAmount - swapBaseAmountBuffer.v
             migrationQuoteAmount == (migrationAmount * l.pMax * l.pMax) \div Q128
             migrationQuoteThreshold ==
                 getMigrationQuoteThresholdFromMigrationQuoteAmount(
                     DecInt(migrationQuoteAmount), p.migrationFee.feePercentage)
         IN  IF ~swapBaseAmount.ok THEN swapBaseAmount
             ELSE IF ~swapBaseAmountBuffer.ok THEN swapBaseAmountBuffer
             ELSE Ret(l @@ [swapBaseAmountBuffer |-> swapBaseAmountBuffer.v,
                            migrationAmount |-> migrationAmount,
                            migrationQuoteThresholdInLamport |->
                                fromDecimalToBN(migrationQuoteThreshold)])

\* buildCurveWithLiquidityWeights from totalDynamicSupply to the return value
LiquidityWeightsReturn(p, r) ==
    IF ~r.ok THEN r
    ELSE LET l == r.v
             totalDynamicSupply ==
                 getTotalSupplyFromCurve(l.migrationQuoteThresholdInLamport,
                     l.pMin, l.curve, l.lockedVesting, p.migrationOption,
                     l.totalLeftover, p.migrationFee.feePercentage)
             leftOverDelta == totalDynamicSupply.v - l.totalSupply
         IN  IF ~totalDynamicSupply.ok THEN totalDynamicSupply
             ELSE IF totalDynamicSupply.v > l.totalSupply
                     /\ ~(leftOverDelta < l.totalLeftover)
             THEN Throw("leftOverDelta must be less than totalLeftover")
             ELSE Ret([totalSupply |-> l.totalSupply,
                       migrationBaseAmount |-> l.migrationAmount,
                       totalVestingAmount |-> l.totalVestingAmount,
                       totalLeftover |-> l.totalLeftover,
                       swapAmount |-> l.swapBaseAmountBuffer,
                       instructionParams |->
                           InstructionParams(p, l.baseFee, l.lockedVesting,
                               l.migratedPoolFeeParams,
                               l.migrationQuoteThresholdInLamport, l.totalSupply,
                               l.pMin, l.curve)])

buildCurveWithLiquidityWeightsLocals(p) ==
    LiquidityWeightsReturn(p,
        LiquidityWeightsMigration(p,
            LiquidityWeightsCurve(p, LiquidityWeightsPrices(p))))

buildCurveWithLiquidityWeights(p) == ReturnOf(buildCurveWithLiquidityWeightsLocals(p))

(***************************************************************************)
(* Launch requests.  A request names the strategy (fn) it is for.          *)
(***************************************************************************)
Idle == [ok |-> FALSE, v |-> 0, err |-> "not run"]

FeeSchedulerParam(startingFeeBps, endingFeeBps, numberOfPeriod, totalDuration) ==
    [startingFeeBps |-> startingFeeBps, endingFeeBps |-> endingFeeBps,
     numberOfPeriod |-> numberOfPeriod, totalDuration |-> totalDuration]
RateLimiterParam(baseFeeBps, feeIncrementBps, referenceAmount, maxLimiterDuration) ==
    [baseFeeBps |-> baseFeeBps, feeIncrementBps |-> feeIncrementBps,
     referenceAmount |-> referenceAmount,
     maxLimiterDuration |-> maxLimiterDuration]
SchedulerFee(mode, f) ==
    [baseFeeMode |-> mode, hasRateLimiterParam |-> FALSE,
     rateLimiterParam |-> RateLimiterParam(0, 0, 0, 0),
     hasFeeSchedulerParam |-> TRUE, feeSchedulerParam |-> f]
RateLimiterFee(r) ==
    [baseFeeMode |-> RateLimiter, hasRateLimiterParam |-> TRUE,
     rateLimiterParam |-> r,
     hasFeeSchedulerParam |-> FALSE,
     feeSchedulerParam |-> FeeSchedulerParam(0, 0, 0, 0)]

TokenDecimals == {0, 1}
MigrationOptions == {MET_DAMM, MET_DAMM_V2, NO_MIGRATION}
\* the three no-migration surplus percentages: left out, summing to 100,
\* summing to 150
SurplusSplits ==
    {<<None, None, None>>, <<Some(50), Some(30), Some(20)>>,
     <<Some(50), Some(50), Some(50)>>}
\* <<token decimals, total locked vesting amount>>
DecimalsAndVesting == {<<0, 0>>, <<1, 0>>, <<0, 10>>}
\* liquidity weights: flat, rising, with zeros, with a negative one
WeightVectors ==
    {[i \in 1..NumWeights |-> 1], [i \in 1..NumWeights |-> i],
     [i \in 1..NumWeights |-> i % 2],
     [i \in 1..NumWeights |-> IF i = 3 THEN -1 ELSE 2]}

\* the fields every strategy reads
CommonParams(migrationOption, tokenDecimal, leftover, vesting, surplus) ==
    [totalTokenSupply |-> 100,
     migrationOption |-> migrationOption,
     tokenBaseDecimal |-> tokenDecimal,
     tokenQuoteDecimal |-> tokenDecimal,
     dynamicFeeEnabled |-> leftover = 0,
     activationType |-> ActivationSlot,
     migrationFeeOption |-> 0,
     leftover |-> leftover,
     lockedVestingParam |->
         [totalLockedVestingAmount |-> vesting, numberOfVestingPeriod |-> 2,
          cliffUnlockAmount |-> 0, totalVestingDuration |-> 10,
          cliffDurationFromMigrationTime |-> 0],
     migrationFee |-> [feePercentage |-> 0, creatorFeePercentage |-> 0],
     baseFeeParams |->
         SchedulerFee(FeeSchedulerLinear, FeeSchedulerParam(100, 100, 0, 0)),
     migratedPoolFee |-> UndefinedPoolFee,
     pausableMode |-> None,
     noMigrationPartnerSurplusPercentage |-> surplus[1],
     noMigrationCreatorSurplusPercentage |-> surplus[2],
     noMigrationProtocolSurplusPercentage |-> surplus[3]]

CommonParamSet ==
    {CommonParams(o, dv[1], l, dv[2], s) :
        o \in MigrationOptions, dv \in DecimalsAndVesting, l \in 0..MaxLeftover,
        s \in SurplusSplits}

Request(fn, common, extra) == [fn |-> fn, p |-> common @@ extra]

BuildCurveRequests ==
    {Request("buildCurve", c,
             [percentageSupplyOnMigration |-> DecInt(pct),
              migrationQuoteThreshold |-> DecInt(thr)]) :
        c \in CommonParamSet, pct \in {20, 50}, thr \in {20, 40, 80}}
MarketCapRequests ==
    {Request("buildCurveWithMarketCap", c,
             [initialMarketCap |-> imc, migrationMarketCap |-> mmc,
              percentageSupplyOnMigration |-> DecInt(0),
              migrationQuoteThreshold |-> DecInt(0)]) :
        c \in CommonParamSet, imc \in {25, 100}, mmc \in {100, 400}}
TwoSegmentsRequests ==
    {Request("buildCurveWithTwoSegments", c,
             [initialMarketCap |-> imc, migrationMarketCap |-> mmc,
              percentageSupplyOnMigration |-> pct]) :
        c \in CommonParamSet, imc \in {9, 25, 49}, mmc \in {400, 900},
        pct \in {10, 20, 30, 50}}
MidPriceRequests ==
    {Request("buildCurveWithMidPrice", c,
             [initialMarketCap |-> imc, migrationMarketCap |-> mmc,
              percentageSupplyOnMigration |-> pct, midPrice |-> mid]) :
        c \in CommonParamSet, imc \in {9, 25}, mmc \in {400},
        pct \in {10, 20, 30, 50}, mid \in {Dec(1, 25), Dec(1, 2), Dec(16, 1)}}
LiquidityWeightsRequests ==
    {Request("buildCurveWithLiquidityWeights", c,
             [initialMarketCap |-> imc, migrationMarketCap |-> mmc,
              liquidityWeights |-> w]) :
        c \in CommonParamSet, imc \in {50, 100}, mmc \in {100, 1600},
        w \in WeightVectors}

TokenomicsRequests ==
    {[fn |-> "getTokenomics",
      p |-> [initialMarketCap |-> DecInt(imc), migrationMarketCap |-> DecInt(mmc),
             totalLockedVestingAmount |-> v, totalLeftover |-> l,
             totalTokenSupply |-> t]] :
        imc \in {1, 9, 25, 50}, mmc \in {0, 25, 100, 400}, v \in {0, 10, 25},
        l \in 0..MaxLeftover, t \in {0, 100, 1000}}

(***************************************************************************)
(* Specification of the build strategies: a launch request arrives, the    *)
(* strategy it names runs on it once.                                      *)
(***************************************************************************)
BuildRequests ==
    BuildCurveRequests \cup MarketCapRequests \cup TwoSegmentsRequests
        \cup MidPriceRequests \cup LiquidityWeightsRequests
        \cup TokenomicsRequests

InitBuild ==
    /\ op = "request"
    /\ args \in BuildRequests
    /\ out = Idle
    /\ locals = Idle

BuildCurve ==
    /\ op = "request"
    /\ args.fn = "buildCurve"
    /\ op' = "buildCurve"
    /\ locals' = buildCurveLocals(args.p)
    /\ out' = ReturnOf(locals')
    /\ UNCHANGED args

BuildCurveWithMarketCap ==
    /\ op = "request"
    /\ args.fn = "buildCurveWithMarketCap"
    /\ op' = "buildCurveWithMarketCap"
    /\ locals' = buildCurveWithMarketCapLocals(args.p)
    /\ out' = ReturnOf(locals')
    /\ UNCHANGED args

BuildCurveWithTwoSegments ==
    /\ op = "request"
    /\ args.fn = "buildCurveWithTwoSegments"
    /\ op' = "buildCurveWithTwoSegments"
    /\ locals' = buildCurveWithTwoSegmentsLocals(args.p)
    /\ out' = ReturnOf(locals')
    /\ UNCHANGED args

BuildCurveWithMidPrice ==
    /\ op = "request"
    /\ args.fn = "buildCurveWithMidPrice"
    /\ op' = "buildCurveWithMidPrice"
    /\ locals' = buildCurveWithMidPriceLocals(args.p)
    /\ out' = ReturnOf(locals')
    /\ UNCHANGED args

BuildCurveWithLiquidityWeights ==
    /\ op = "request"
    /\ args.fn = "buildCurveWithLiquidityWeights"
    /\ op' = "buildCurveWithLiquidityWeights"
    /\ locals' = buildCurveWithLiquidityWeightsLocals(args.p)
    /\ out' = ReturnOf(locals')
    /\ UNCHANGED args

GetTokenomics ==
    /\ op = "request"
    /\ args.fn = "getTokenomics"
    /\ op' = "getTokenomics"
    /\ out' = getTokenomics(args.p.initialMarketCap, args.p.migrationMarketCap,
                            args.p.totalLockedVestingAmount,
                            args.p.totalLeftover, args.p.totalTokenSupply)
    /\ UNCHANGED <<args, locals>>

NextBuild ==
    \/ BuildCurve
    \/ BuildCurveWithMarketCap
    \/ BuildCurveWithTwoSegments
    \/ BuildCurveWithMidPrice
    \/ BuildCurveWithLiquidityWeights
    \/ GetTokenomics

SpecBuild == InitBuild /\ [][NextBuild]_vars

(***************************************************************************)
(* Properties of the build strategies                                      *)
(***************************************************************************)
BuildOps ==
    {"buildCurve", "buildCurveWithMarketCap", "buildCurveWithTwoSegments",
     "buildCurveWithMidPrice", "buildCurveWithLiquidityWeights"}
\* a strategy has run and returned a configuration
Returned == op \in BuildOps /\ out.ok
\* the total supply reconstructed from the returned configuration
Reconstructed ==
    getTotalSupplyFromCurve(out.v.migrationQuoteThreshold, out.v.sqrtStartPrice,
        out.v.curve, out.v.lockedVesting, out.v.migrationOption,
        locals.v.totalLeftover, out.v.migrationFee.feePercentage)

\* C1: whenever a build strategy returns a configuration, the total supply
\* reconstructed from the returned sqrtStartPrice and curve is at most the
\* declared total supply plus the declared leftover; a candidate beyond that
\* is an error, not a return value.
C1_ReconstructedSupplyWithinLeftover ==
    Returned =>
        /\ Reconstructed.ok
        /\ Reconstructed.v <= locals.v.totalSupply + locals.v.totalLeftover

\* a returned two-segment curve whose reconstruction is above the total
\* supply, inside the leftover
C1_Witness ==
    /\ Returned
    /\ op = "buildCurveWithTwoSegments"
    /\ Reconstructed.v > locals.v.totalSupply

Feasible(m, mid) ==
    LET l == TwoCurveLiquidity(m.initialSqrtPrice, mid, m.migrateSqrtPrice,
                 m.swapAmount, m.migrationQuoteThresholdInLamport * Q128)
    IN  l.finite /\ l.l0.n >= 0 /\ l.l1.n >= 0

\* C3: buildCurveWithTwoSegments returns the curve of the first of its three
\* candidate mid prices, in the order the function lists them, whose l0 and
\* l1 are both non-negative; every candidate before it has a negative one.
C3_FirstFeasibleCandidate ==
    (op = "buildCurveWithTwoSegments" /\ out.ok) =>
        LET m == MarketCapLocals(args.p).v
            mids == midPrices(m.initialSqrtPrice, m.migrateSqrtPrice)
            k == locals.v.used
        IN  /\ k \in 1..3
            /\ \A j \in 1..(k - 1) : ~Feasible(m, mids[j])
            /\ Feasible(m, mids[k])
            /\ out.v.curve[1].sqrtPrice = mids[k]
            /\ out.v.curve =
                   getTwoCurve(m.migrateSqrtPrice, mids[k], m.initialSqrtPrice,
                       m.swapAmount, m.migrationQuoteThresholdInLamport).v.curve

\* the first candidate was skipped and the second one used
C3_Witness ==
    /\ op = "buildCurveWithTwoSegments"
    /\ out.ok
    /\ locals.v.used = 2

\* the mid price solves to finite liquidities of which one is negative
Negative(m, mid) ==
    LET l == TwoCurveLiquidity(m.initialSqrtPrice, mid, m.migrateSqrtPrice,
                 m.swapAmount, m.migrationQuoteThresholdInLamport * Q128)
    IN  m.initialSqrtPrice > 0 /\ mid > 0 /\ l.finite
            /\ (l.l0.n < 0 \/ l.l1.n < 0)

\* every mid price available to the call solves to a negative l0 or l1
Infeasible ==
    LET m == MarketCapLocals(args.p)
    IN  /\ m.ok
        /\ IF args.fn = "buildCurveWithMidPrice"
           THEN LET mid == getSqrtPriceFromPrice(args.p.midPrice,
                               args.p.tokenBaseDecimal, args.p.tokenQuoteDecimal)
                IN  mid.ok /\ Negative(m.v, mid.v)
           ELSE \A j \in 1..3 :
                    Negative(m.v, midPrices(m.v.initialSqrtPrice,
                                            m.v.migrateSqrtPrice)[j])

\* C4: a two-segment build whose every available mid price solves to a
\* negative l0 or l1 returns no configuration: it is rejected with the error
\* raised for the empty curve the solver is left with.
C4_InfeasibleRejected ==
    (op \in {"buildCurveWithMidPrice", "buildCurveWithTwoSegments"}
        /\ Infeasible) => out = Throw("Curve is empty")

\* all three candidates of buildCurveWithTwoSegments are infeasible
C4_Witness ==
    /\ op = "buildCurveWithTwoSegments"
    /\ Infeasible
    /\ ~out.ok

\* C5: the swap amount, migration base amount, total vesting amount and
\* leftover of a returned build add up to the total supply, and the four
\* supplies getTokenomics returns add up to totalTokenSupply.
C5_SupplyConserved ==
    /\ Returned =>
           locals.v.swapAmount + locals.v.migrationBaseAmount
               + locals.v.totalVestingAmount + locals.v.totalLeftover
             = locals.v.totalSupply
    /\ (op = "getTokenomics" /\ out.ok) =>
           out.v.bondingCurveSupply + out.v.migrationSupply
               + out.v.leftoverSupply + out.v.lockedVestingSupply
             = args.p.totalTokenSupply

C5_Witness ==
    /\ op = "getTokenomics"
    /\ out.ok
    /\ out.v.migrationSupply > 0
    /\ out.v.leftoverSupply > 0
    /\ out.v.lockedVestingSupply > 0

\* C7: a returned no-migration configuration has three surplus percentages
\* that sum to 100.
C7_SurplusSumsTo100 ==
    (Returned /\ out.v.migrationOption = NO_MIGRATION) =>
        out.v.noMigrationPartnerSurplusPercentage
            + out.v.noMigrationCreatorSurplusPercentage
            + out.v.noMigrationProtocolSurplusPercentage = 100

(***************************************************************************)
(* Specification of the fee, supply and rate-limiter helpers: a call       *)
(* arrives with its arguments and the function it names runs on them once. *)
(***************************************************************************)
\* the largest point in time drawn
MaxPoint == 6

BaseFeeRequests ==
    {[fn |-> "getBaseFeeParams",
      p |-> [baseFeeParams |-> SchedulerFee(mode, FeeSchedulerParam(s, e, pd[1], pd[2])),
             tokenQuoteDecimal |-> 0, activationType |-> ActivationSlot]] :
        mode \in {FeeSchedulerLinear, FeeSchedulerExponential},
        s \in {10, 25, 100, 9900, 9950}, e \in {10, 25, 100, 9950},
        pd \in {<<0, 0>>, <<1, 10>>}}
    \cup
    {[fn |-> "getBaseFeeParams",
      p |-> [baseFeeParams |-> RateLimiterFee(RateLimiterParam(b, i, 1, d)),
             tokenQuoteDecimal |-> q, activationType |-> a]] :
        b \in {0, 10, 25, 100, 9900, 9950}, i \in {0, 10, 9900},
        d \in {0, 10, MAX_RATE_LIMITER_DURATION_IN_SECONDS + 1},
        q \in TokenDecimals, a \in {ActivationSlot, ActivationTimestamp}}
    \cup
    {[fn |-> "getBaseFeeParams",
      p |-> [baseFeeParams |->
                 [SchedulerFee(mode, FeeSchedulerParam(100, 100, 0, 0))
                      EXCEPT !.hasFeeSchedulerParam = FALSE],
             tokenQuoteDecimal |-> 0, activationType |-> ActivationSlot]] :
        mode \in {FeeSchedulerLinear, RateLimiter}}

DynamicFeeRequests ==
    {[fn |-> "getDynamicFeeParams",
      p |-> [baseFeeBps |-> b, maxPriceChangeBps |-> c]] :
        b \in {0, 1, 25, 100, 1000, 9900}, c \in {0, 1, 3, 100, 1500, 1501}}

\* 2^n as a bn.js value
Pow2(n) == [neg |-> FALSE, m |-> MPow(<<2>>, n)]
U64_MAX == BNsub(Pow2(64), BN(1))

TotalTokenSupplyRequests ==
    {[fn |-> "getTotalTokenSupply",
      p |-> [swapBaseAmount |-> a, migrationBaseThreshold |-> b,
             lockedVestingParams |->
                 [amountPerPeriod |-> v, numberOfPeriod |-> n,
                  cliffUnlockAmount |-> c]]] :
        a \in {BN(0), BN(1), Pow2(63), BNsub(U64_MAX, BN(1))},
        b \in {BN(0), BN(1), BNsub(Pow2(63), BN(1)), Pow2(63)},
        v \in {BN(0), BN(1), Pow2(32)}, n \in {BN(0), BN(2), Pow2(32)},
        c \in {BN(0), BN(1)}}

RateLimiterPoints ==
    {[currentPoint |-> c, activationPoint |-> a, maxLimiterDuration |-> d,
      swapBaseForQuote |-> b, baseFeeMode |-> mode] :
        c \in 0..MaxPoint, a \in {0, 2}, d \in {0, 1, 3}, b \in BOOLEAN,
        mode \in {FeeSchedulerLinear, FeeSchedulerExponential, RateLimiter}}

CheckRateLimiterRequests ==
    {[fn |-> "checkRateLimiterApplied", p |-> r] : r \in RateLimiterPoints}
SwapRequests == {[fn |-> "swap", p |-> r] : r \in RateLimiterPoints}

HelperRequests ==
    BaseFeeRequests \cup DynamicFeeRequests \cup TotalTokenSupplyRequests
        \cup CheckRateLimiterRequests \cup SwapRequests

InitHelpers ==
    /\ op = "request"
    /\ args \in HelperRequests
    /\ out = Idle
    /\ locals = Idle

GetBaseFeeParams ==
    /\ op = "request"
    /\ args.fn = "getBaseFeeParams"
    /\ op' = "getBaseFeeParams"
    /\ out' = getBaseFeeParams(args.p.baseFeeParams, args.p.tokenQuoteDecimal,
                               args.p.activationType)
    /\ UNCHANGED <<args, locals>>

GetDynamicFeeParams ==
    /\ op = "request"
    /\ args.fn = "getDynamicFeeParams"
    /\ op' = "getDynamicFeeParams"
    /\ out' = getDynamicFeeParams(args.p.baseFeeBps, args.p.maxPriceChangeBps)
    /\ UNCHANGED <<args, locals>>

GetTotalTokenSupply ==
    /\ op = "request"
    /\ args.fn = "getTotalTokenSupply"
    /\ op' = "getTotalTokenSupply"
    /\ out' = getTotalTokenSupply(args.p.swapBaseAmount,
                                  args.p.migrationBaseThreshold,
                                  args.p.lockedVestingParams)
    /\ UNCHANGED <<args, locals>>

CheckRateLimiterApplied ==
    /\ op = "request"
    /\ args.fn = "checkRateLimiterApplied"
    /\ op' = "checkRateLimiterApplied"
    /\ out' = Ret(checkRateLimiterApplied(args.p.baseFeeMode,
                      args.p.swapBaseForQuote, args.p.currentPoint,
                      args.p.activationPoint, args.p.maxLimiterDuration))
    /\ UNCHANGED <<args, locals>>

\* a swap on a pool whose base fee has the request's mode and limiter duration
Swap ==
    /\ op = "request"
    /\ args.fn = "swap"
    /\ op' = "swap"
    /\ out' = swap(BaseFee(MIN_FEE_NUMERATOR, 10, args.p.maxLimiterDuration, 1,
                           args.p.baseFeeMode),
                   args.p.activationPoint, args.p.swapBaseForQuote,
                   args.p.currentPoint)
    /\ UNCHANGED <<args, locals>>

NextHelpers ==
    \/ GetBaseFeeParams
    \/ GetDynamicFeeParams
    \/ GetTotalTokenSupply
    \/ CheckRateLimiterApplied
    \/ Swap

SpecHelpers == InitHelpers /\ [][NextHelpers]_vars

(***************************************************************************)
(* Properties of the helpers                                               *)
(***************************************************************************)
\* C6: every base fee getBaseFeeParams returns has a cliffFeeNumerator
\* within [MIN_FEE_NUMERATOR, MAX_FEE_NUMERATOR].
C6_CliffFeeWithinBounds ==
    (op = "getBaseFeeParams" /\ out.ok) =>
        /\ out.v.cliffFeeNumerator >= MIN_FEE_NUMERATOR
        /\ out.v.cliffFeeNumerator <= MAX_FEE_NUMERATOR

\* the sum getTotalTokenSupply is asked for
TotalTokenSupplySum ==
    BNadd(BNadd(args.p.swapBaseAmount, args.p.migrationBaseThreshold),
          BNadd(args.p.lockedVestingParams.cliffUnlockAmount,
                BNmul(args.p.lockedVestingParams.amountPerPeriod,
                      args.p.lockedVestingParams.numberOfPeriod)))

\* C8: getTotalTokenSupply returns the exact sum when the sum is at most
\* 2^64 - 1 and fails with 'Math overflow' when it is larger.
C8_ExactSumOrOverflow ==
    op = "getTotalTokenSupply" =>
        IF BNcmp(TotalTokenSupplySum, U64_MAX) <= 0
        THEN out = Ret(TotalTokenSupplySum)
        ELSE out = Throw("Math overflow")

\* the largest sum that fits is returned
C8_Witness ==
    /\ op = "getTotalTokenSupply"
    /\ out = Ret(U64_MAX)

MaxDynamicFee ==
    LET vfaBin == BNmul(BN(out.v.maxVolatilityAccumulator), BN(out.v.binStep))
    IN  BNdiv(BNadd(BNmul(out.v.variableFeeControl, BNmul(vfaBin, vfaBin)),
                    DYNAMIC_FEE_ROUNDING_OFFSET),
              DYNAMIC_FEE_SCALING_FACTOR)

\* C10: with the parameters getDynamicFeeParams returns, the surcharge at
\* the ceiling of the volatility accumulator is at most 20% of the base fee
\* numerator.
C10_DynamicFeeCapped ==
    (op = "getDynamicFeeParams" /\ out.ok) =>
        BNcmp(MaxDynamicFee,
              BNdiv(BNmul(BN(bpsToFeeNumerator(args.p.baseFeeBps)), BN(20)),
                    BN(100))) <= 0

\* a positive surcharge for the default maximum price change
C10_Witness ==
    /\ op = "getDynamicFeeParams"
    /\ out.ok
    /\ args.p.maxPriceChangeBps = MAX_PRICE_CHANGE_BPS_DEFAULT
    /\ BNcmp(out.v.variableFeeControl, BN(0)) > 0
    /\ BNcmp(MaxDynamicFee, BN(0)) > 0

(***************************************************************************)
(* math/swapQuote.ts (the Quote Engine, spec section 4.4).  A quote walks  *)
(* the segments of the curve from the pool's current sqrt price: up for a  *)
(* quote-to-base trade, down to sqrtStartPrice for a base-to-quote trade.  *)
(* Amounts are the ones applied to the curve; the split of the trading fee *)
(* is not part of the walk.  A walk yields amountLeft (what the curve did  *)
(* not absorb), nextSqrtPrice and the amount on the other side.            *)
(***************************************************************************)
ExactIn == 0
PartialFill == 1
ExactOut == 2

Walked(amountLeft, nextSqrtPrice, amount) ==
    Ret([amountLeft |-> amountLeft, nextSqrtPrice |-> nextSqrtPrice, amount |-> amount])

\* the lower bound of segment i
LowerSqrtPrice(i, sqrtStartPrice, curve) ==
    IF i = 1 THEN sqrtStartPrice ELSE curve[i - 1].sqrtPrice

\* the inverse of the kernel: the price at which the segment has paid out
\* amountOut, rounded against the trader
getNextSqrtPriceFromOutput(sqrtPrice, liquidity, amountOut, baseForQuote) ==
    IF sqrtPrice <= 0 \/ liquidity <= 0 \/ amountOut < 0
    THEN Throw("Math overflow")
    ELSE IF baseForQuote
    THEN LET next == sqrtPrice - CeilDiv(amountOut * Q128, liquidity)
         IN  IF next <= 0 THEN Throw("Math overflow") ELSE Ret(next)
    ELSE IF liquidity - amountOut * sqrtPrice <= 0 THEN Throw("Math overflow")
    ELSE Ret(CeilDiv(liquidity * sqrtPrice, liquidity - amountOut * sqrtPrice))

\* the last, partly consumed segment of an exact-in walk: input in, output out
LastSegmentFromInput(sqrtPrice, liquidity, amountLeft, amount, baseForQuote) ==
    LET next == getNextSqrtPriceFromInput(sqrtPrice, liquidity, amountLeft,
                                          baseForQuote)
        output == IF baseForQuote
                  THEN getDeltaAmountQuoteUnsigned(next.v, sqrtPrice, liquidity,
                                                   "Down")
                  ELSE getDeltaAmountBaseUnsigned(sqrtPrice, next.v, liquidity,
                                                  "Down")
    IN  IF ~next.ok THEN next
        ELSE IF ~output.ok THEN output
        ELSE Walked(0, next.v, amount + output.v)

\* the last, partly consumed segment of an exact-out walk
LastSegmentFromOutput(sqrtPrice, liquidity, amountLeft, amount, baseForQuote) ==
    LET next == getNextSqrtPriceFromOutput(sqrtPrice, liquidity, amountLeft,
                                           baseForQuote)
        input == IF baseForQuote
                 THEN getDeltaAmountBaseUnsigned(next.v, sqrtPrice, liquidity,
                                                 "Up")
                 ELSE getDeltaAmountQuoteUnsigned(sqrtPrice, next.v, liquidity,
                                                  "Up")
    IN  IF ~next.ok THEN next
        ELSE IF ~input.ok THEN input
        ELSE Walked(0, next.v, amount + input.v)

\* what segment i can take in (byInput) or pay out between sqrtPrice and
\* its bound in the direction of the trade, and the other side of that;
\* what the trader pays is rounded up, what the trader gets is rounded down
SegmentAmounts(i, sqrtStartPrice, curve, sqrtPrice, baseForQuote, byInput) ==
    LET lower == IF baseForQuote THEN LowerSqrtPrice(i, sqrtStartPrice, curve)
                 ELSE sqrtPrice
        upper == IF baseForQuote THEN sqrtPrice ELSE curve[i].sqrtPrice
        base == getDeltaAmountBaseUnsigned(lower, upper, curve[i].liquidity,
                    IF baseForQuote THEN "Up" ELSE "Down")
        quote == getDeltaAmountQuoteUnsigned(lower, upper, curve[i].liquidity,
                     IF baseForQuote THEN "Down" ELSE "Up")
    IN  IF ~base.ok THEN base
        ELSE IF ~quote.ok THEN quote
        ELSE Ret([bound |-> IF baseForQuote THEN lower ELSE upper,
                  walked |-> IF baseForQuote = byInput THEN base.v ELSE quote.v,
                  other |-> IF baseForQuote = byInput THEN quote.v ELSE base.v])

RECURSIVE CurveWalk(_, _, _, _, _, _, _, _)
\* segment i once its amounts s are known: the walk ends inside it or goes
\* on from its bound
WalkSegment(i, sqrtStartPrice, curve, amountLeft, sqrtPrice, amount, baseForQuote, byInput, s) ==
    IF ~s.ok THEN s
    ELSE IF amountLeft < s.v.walked
    THEN IF byInput
         THEN LastSegmentFromInput(sqrtPrice, curve[i].liquidity, amountLeft,
                                   amount, baseForQuote)
         ELSE LastSegmentFromOutput(sqrtPrice, curve[i].liquidity, amountLeft,
                                    amount, baseForQuote)
    ELSE CurveWalk(IF baseForQuote THEN i - 1 ELSE i + 1, sqrtStartPrice, curve,
                   amountLeft - s.v.walked, s.v.bound, amount + s.v.other,
                   baseForQuote, byInput)

\* the walk from segment i on: it stops when nothing is left to walk or the
\* curve is exhausted, and passes the segments that lie behind sqrtPrice
CurveWalk(i, sqrtStartPrice, curve, amountLeft, sqrtPrice, amount, baseForQuote, byInput) ==
    IF amountLeft = 0 \/ i < 1 \/ i > Len(curve)
    THEN Walked(amountLeft, sqrtPrice, amount)
    ELSE IF (baseForQuote
                /\ LowerSqrtPrice(i, sqrtStartPrice, curve) >= sqrtPrice)
            \/ (~baseForQuote /\ curve[i].sqrtPrice <= sqrtPrice)
    THEN CurveWalk(IF baseForQuote THEN i - 1 ELSE i + 1, sqrtStartPrice, curve,
                   amountLeft, sqrtPrice, amount, baseForQuote, byInput)
    ELSE WalkSegment(i, sqrtStartPrice, curve, amountLeft, sqrtPrice, amount,
                     baseForQuote, byInput,
                     SegmentAmounts(i, sqrtStartPrice, curve, sqrtPrice,
                                    baseForQuote, byInput))

\* the walk of a whole quote
QuoteWalk(virtualPool, config, swapBaseForQuote, amount, byInput) ==
    CurveWalk(IF swapBaseForQuote THEN Len(config.curve) ELSE 1,
              config.sqrtStartPrice, config.curve, amount, virtualPool.sqrtPrice,
              0, swapBaseForQuote, byInput)

\* amount less (or, for an input, plus) the slippage tolerance
getSwapAmountFromSlippage(amount, slippageBps, isInput) ==
    IF isInput
    THEN CeilDiv(amount * (BASIS_POINT_MAX + OrZero(slippageBps)), BASIS_POINT_MAX)
    ELSE (amount * (BASIS_POINT_MAX - OrZero(slippageBps))) \div BASIS_POINT_MAX

\* the result of a quote by input: w is its walk
QuoteByInput(w, amountIn, slippageBps, partialFill) ==
    IF ~w.ok THEN w
    ELSE IF w.v.amountLeft # 0 /\ ~partialFill
    THEN Throw("Insufficient Liquidity")
    ELSE Ret([includedFeeInputAmount |-> amountIn - w.v.amountLeft,
              outputAmount |-> w.v.amount,
              amountLeft |-> w.v.amountLeft,
              nextSqrtPrice |-> w.v.nextSqrtPrice,
              minimumAmountOut |->
                  Some(getSwapAmountFromSlippage(w.v.amount, slippageBps, FALSE)),
              maximumAmountIn |-> None])

\* the result of a quote by output: w is its walk
QuoteByOutput(w, amountOut, slippageBps) ==
    IF ~w.ok THEN w
    ELSE IF w.v.amountLeft # 0 THEN Throw("Insufficient Liquidity")
    ELSE Ret([includedFeeInputAmount |-> w.v.amount,
              outputAmount |-> amountOut,
              amountLeft |-> 0,
              nextSqrtPrice |-> w.v.nextSqrtPrice,
              minimumAmountOut |-> None,
              maximumAmountIn |->
                  Some(getSwapAmountFromSlippage(w.v.amount, slippageBps, TRUE))])

swapQuoteExactIn(virtualPool, config, swapBaseForQuote, amountIn, slippageBps, hasReferral, currentPoint) ==
    QuoteByInput(QuoteWalk(virtualPool, config, swapBaseForQuote, amountIn, TRUE),
                 amountIn, slippageBps, FALSE)

swapQuotePartialFill(virtualPool, config, swapBaseForQuote, amountIn, slippageBps, hasReferral, currentPoint) ==
    QuoteByInput(QuoteWalk(virtualPool, config, swapBaseForQuote, amountIn, TRUE),
                 amountIn, slippageBps, TRUE)

swapQuoteExactOut(virtualPool, config, swapBaseForQuote, amountOut, slippageBps, hasReferral, currentPoint) ==
    QuoteByOutput(QuoteWalk(virtualPool, config, swapBaseForQuote, amountOut,
                            FALSE),
                  amountOut, slippageBps)

(***************************************************************************)
(* services/pool.ts: PoolService.swapQuote2                                *)
(***************************************************************************)
\* swapQuote2 with PartialFill sent to the exact-in quote
swapQuote2AlwaysExactIn(params) ==
    IF params.swapMode \in {ExactIn, PartialFill}
    THEN IF params.amountIn.defined
         THEN swapQuoteExactIn(params.virtualPool, params.config,
                  params.swapBaseForQuote, params.amountIn.v, params.slippageBps,
                  params.hasReferral, params.currentPoint)
         ELSE Throw("amountIn is required for ExactIn swap mode")
    ELSE IF params.swapMode = ExactOut
    THEN IF params.amountOut.defined
         THEN swapQuoteExactOut(params.virtualPool, params.config,
                  params.swapBaseForQuote, params.amountOut.v, params.slippageBps,
                  params.hasReferral, params.currentPoint)
         ELSE Throw("outAmount is required for ExactOut swap mode")
    ELSE Throw("Unsupported swap mode: " \o ToString(params.swapMode))

swapQuote2(params) ==
    IF params.swapMode = ExactIn
    THEN IF params.amountIn.defined
         THEN swapQuoteExactIn(params.virtualPool, params.config,
                  params.swapBaseForQuote, params.amountIn.v, params.slippageBps,
                  params.hasReferral, params.currentPoint)
         ELSE Throw("amountIn is required for ExactIn swap mode")
    ELSE IF params.swapMode = ExactOut
    THEN IF params.amountOut.defined
         THEN swapQuoteExactOut(params.virtualPool, params.config,
                  params.swapBaseForQuote, params.amountOut.v, params.slippageBps,
                  params.hasReferral, params.currentPoint)
         ELSE Throw("outAmount is required for ExactOut swap mode")
    ELSE IF params.swapMode = PartialFill
    THEN IF params.amountIn.defined
         THEN swapQuotePartialFill(params.virtualPool, params.config,
                  params.swapBaseForQuote, params.amountIn.v, params.slippageBps,
                  params.hasReferral, params.currentPoint)
         ELSE Throw("amountIn is required for PartialFill swap mode")
    ELSE Throw("Unsupported swap mode: " \o ToString(params.swapMode))

(***************************************************************************)
(* Specification of the quotes: a quote request arrives for a pool at some *)
(* point of its curve and swapQuote2 answers it once.                      *)
(***************************************************************************)
\* curves from sqrtStartPrice 2 * MIN_SQRT_PRICE: one segment, two segments,
\* and two segments of which the first holds no liquidity
QuoteConfigs ==
    {[sqrtStartPrice |-> 2 * MIN_SQRT_PRICE, curve |-> c] :
        c \in {<<Seg(4 * MIN_SQRT_PRICE, Q128)>>,
               <<Seg(4 * MIN_SQRT_PRICE, Q128), Seg(8 * MIN_SQRT_PRICE, 2 * Q128)>>,
               <<Seg(4 * MIN_SQRT_PRICE, 0), Seg(8 * MIN_SQRT_PRICE, 2 * Q128)>>}}

\* the pool stands at the start of its curve, inside the first segment or
\* at the end of it
QuotePools ==
    {[sqrtPrice |-> s] :
        s \in {2 * MIN_SQRT_PRICE, 3 * MIN_SQRT_PRICE, 4 * MIN_SQRT_PRICE}}

QuoteAmounts == {0, 1, 5, 8, 9, 11, 16, 17, 40, 41}

QuoteRequests ==
    {[fn |-> "swapQuote2",
      p |-> [virtualPool |-> v, config |-> c, swapBaseForQuote |-> d,
             swapMode |-> m, amountIn |-> a[1], amountOut |-> a[2],
             slippageBps |-> s, hasReferral |-> FALSE, currentPoint |-> 0]] :
        v \in QuotePools, c \in QuoteConfigs, d \in BOOLEAN,
        m \in {ExactIn, PartialFill, ExactOut, 3},
        a \in {<<Some(x), None>> : x \in QuoteAmounts}
                \cup {<<None, Some(x)>> : x \in QuoteAmounts},
        s \in {None, Some(100)}}

InitQuote ==
    /\ op = "request"
    /\ args \in QuoteRequests
    /\ out = Idle
    /\ locals = Idle

SwapQuote2 ==
    /\ op = "request"
    /\ args.fn = "swapQuote2"
    /\ op' = "swapQuote2"
    /\ out' = swapQuote2(args.p)
    /\ UNCHANGED <<args, locals>>

NextQuote == SwapQuote2

SpecQuote == InitQuote /\ [][NextQuote]_vars

(***************************************************************************)
(* Properties of the quotes                                                *)
(***************************************************************************)
RECURSIVE InputCapacityFrom(_, _, _, _, _)
\* the input segments i.. of the curve absorb between sqrtPrice and the end
\* of the curve in the direction of the trade
InputCapacityFrom(i, sqrtStartPrice, curve, sqrtPrice, baseForQuote) ==
    IF i > Len(curve) THEN 0
    ELSE LET lower == LowerSqrtPrice(i, sqrtStartPrice, curve)
             upper == curve[i].sqrtPrice
             here ==
                 IF baseForQuote
                 THEN IF lower >= sqrtPrice THEN 0
                      ELSE CeilDiv(curve[i].liquidity * (Min(upper, sqrtPrice) - lower),
                                   lower * Min(upper, sqrtPrice))
                 ELSE IF upper <= sqrtPrice THEN 0
                      ELSE CeilDiv(curve[i].liquidity * (upper - Max(lower, sqrtPrice)),
                                   Q128)
         IN  here + InputCapacityFrom(i + 1, sqrtStartPrice, curve, sqrtPrice,
                                      baseForQuote)

InputCapacity(p) ==
    InputCapacityFrom(1, p.config.sqrtStartPrice, p.config.curve,
                      p.virtualPool.sqrtPrice, p.swapBaseForQuote)

\* the request asks for more input than the curve can absorb
Exhausting ==
    args.p.amountIn.defined /\ args.p.amountIn.v > InputCapacity(args.p)

\* C11: a request for more input than the curve can absorb is answered, in
\* PartialFill mode, by a quote that fills what the curve absorbs, less than
\* the amount requested, and raises no error, and in ExactIn mode by the
\* insufficient-liquidity error; swapQuote2 answers a PartialFill request
\* with the partial-fill quote and an ExactIn request with the exact-in quote.
C11_PartialFillDegrades ==
    (op = "swapQuote2" /\ args.p.amountIn.defined) =>
        LET p == args.p
        IN  /\ (p.swapMode = PartialFill) =>
                   /\ out = swapQuotePartialFill(p.virtualPool, p.config,
                                p.swapBaseForQuote, p.amountIn.v, p.slippageBps,
                                p.hasReferral, p.currentPoint)
                   /\ Exhausting =>
                          /\ out.ok
                          /\ out.v.includedFeeInputAmount = InputCapacity(p)
                          /\ out.v.includedFeeInputAmount < p.amountIn.v
            /\ (p.swapMode = ExactIn) =>
                   /\ out = swapQuoteExactIn(p.virtualPool, p.config,
                                p.swapBaseForQuote, p.amountIn.v, p.slippageBps,
                                p.hasReferral, p.currentPoint)
                   /\ Exhausting => out = Throw("Insufficient Liquidity")

\* a partial fill of a request beyond the curve that filled something
C11_Witness ==
    /\ op = "swapQuote2"
    /\ args.p.swapMode = PartialFill
    /\ Exhausting
    /\ out.ok
    /\ out.v.includedFeeInputAmount > 0
    /\ out.v.outputAmount > 0

(***************************************************************************)
(* Purity of the build strategies and helpers.  An argument object is held *)
(* by reference: a write through a name that aliases one of its fields     *)
(* changes what every later call on the object reads.  The module has no   *)
(* module-level variable; the only writes in the strategies are pushes.    *)
(***************************************************************************)
\* a strategy that pushed onto the liquidityWeights array of its argument
PushTargetsIntoWeights(fn) == {"liquidityWeights"}

\* the arrays the body of a strategy pushes onto: buildCurve onto the curve
\* getFirstCurve returned, buildCurveWithLiquidityWeights onto the sqrtPrices
\* and curve arrays it created; the other bodies push onto nothing
PushTargets(fn) ==
    CASE fn = "buildCurve" -> {"curve"}
      [] fn = "buildCurveWithMarketCap" -> {"curve"}
      [] fn = "buildCurveWithLiquidityWeights" -> {"sqrtPrices", "curve"}
      [] OTHER -> {}

\* the argument object after the body of fn ran on it: a field that one of
\* the pushed arrays aliases has grown by the element pushed
ArgumentAfter(fn, p) ==
    [f \in DOMAIN p |-> IF f \in PushTargets(fn) THEN Append(p[f], 0) ELSE p[f]]

\* the strategy a request names, applied to an argument object
PureCall(fn, p) ==
    CASE fn = "buildCurve" -> buildCurve(p)
      [] fn = "buildCurveWithMarketCap" -> buildCurveWithMarketCap(p)
      [] fn = "buildCurveWithTwoSegments" -> buildCurveWithTwoSegments(p)
      [] fn = "buildCurveWithMidPrice" -> buildCurveWithMidPrice(p)
      [] fn = "buildCurveWithLiquidityWeights" -> buildCurveWithLiquidityWeights(p)

\* the callers that hold the same argument object: two call the strategy,
\* the third calls getMigratedPoolFeeParams on its fields
StrategyCallers == {"first", "second"}
FeeCaller == "fee"

PureRequests ==
    {r \in BuildCurveRequests \cup MarketCapRequests \cup TwoSegmentsRequests
               \cup MidPriceRequests \cup LiquidityWeightsRequests :
        /\ r.p.leftover = 0
        /\ r.p.tokenBaseDecimal = 0
        /\ ~r.p.noMigrationPartnerSurplusPercentage.defined}

NotCalled == [called |-> FALSE, result |-> Idle]

InitPure ==
    /\ op = "request"
    /\ args \in PureRequests
    /\ out = Idle
    /\ locals = [argument |-> args.p,
                 calls |-> [c \in StrategyCallers \cup {FeeCaller} |-> NotCalled]]

\* one of the callers calls the strategy on the shared argument object
CallStrategy ==
    \E c \in StrategyCallers :
        /\ ~locals.calls[c].called
        /\ op' = args.fn
        /\ out' = PureCall(args.fn, locals.argument)
        /\ locals' = [argument |-> ArgumentAfter(args.fn, locals.argument),
                      calls |-> [locals.calls EXCEPT
                                    ![c] = [called |-> TRUE, result |-> out']]]
        /\ UNCHANGED args

\* the third caller asks for the migrated pool fee of the same object
CallGetMigratedPoolFeeParams ==
    /\ ~locals.calls[FeeCaller].called
    /\ op' = "getMigratedPoolFeeParams"
    /\ out' = getMigratedPoolFeeParams(locals.argument.migrationOption,
                                       locals.argument.migrationFeeOption,
                                       locals.argument.migratedPoolFee)
    /\ locals' = [locals EXCEPT
                     !.calls[FeeCaller] = [called |-> TRUE, result |-> out']]
    /\ UNCHANGED args

NextPure ==
    \/ CallStrategy
    \/ CallGetMigratedPoolFeeParams

SpecPure == InitPure /\ [][NextPure]_vars

NotPausable == 0
Pausable == 1
\* the swaps counted as accepted and as blocked (the counts saturate)
MaxSwaps == 2

Signers == {"partner", "creator", "trader"}
\* a pool with its config, a pool whose config account is not found, and an
\* address that holds no pool
PoolAddresses == {"pool", "orphan", "missing"}

\* StateService.getPool: the pool account at an address, or null
getPool(chain, pool) ==
    IF pool = "pool" THEN Some([config |-> "config", isPaused |-> chain.isPaused])
    ELSE IF pool = "orphan" THEN Some([config |-> "gone", isPaused |-> FALSE])
    ELSE None

\* StateService.getPoolConfig: the config account at an address, or null
getPoolConfig(chain, config) ==
    IF config = "config"
    THEN Some([pausableMode |-> chain.pausableMode, feeClaimer |-> chain.feeClaimer])
    ELSE None

\* a transaction of one instruction of the program
Instruction(method, accounts) == [method |-> method, accounts |-> accounts]

\* a pauseTrading that asked the program to unpause
pauseTradingAsUnpause(params, chain) ==
    Ret(Instruction("unpauseTrading",
                    [config |-> "config", pool |-> params.virtualPool,
                     feeClaimer |-> params.feeClaimer]))

pauseTrading(params, chain) ==
    LET virtualPoolState == getPool(chain, params.virtualPool)
    IN  IF ~virtualPoolState.defined
        THEN Throw("Pool not found: " \o params.virtualPool)
        ELSE IF ~getPoolConfig(chain, virtualPoolState.v.config).defined
        THEN Throw("Pool config not found for virtual pool")
        ELSE Ret(Instruction("pauseTrading",
                     [config |-> virtualPoolState.v.config,
                      pool |-> params.virtualPool,
                      feeClaimer |-> params.feeClaimer]))

\* an unpauseTrading that asked the program to pause
unpauseTradingAsPause(params, chain) ==
    Ret(Instruction("pauseTrading",
                    [config |-> "config", pool |-> params.virtualPool,
                     feeClaimer |-> params.feeClaimer]))

unpauseTrading(params, chain) ==
    LET virtualPoolState == getPool(chain, params.virtualPool)
    IN  IF ~virtualPoolState.defined
        THEN Throw("Pool not found: " \o params.virtualPool)
        ELSE IF ~getPoolConfig(chain, virtualPoolState.v.config).defined
        THEN Throw("Pool config not found for virtual pool")
        ELSE Ret(Instruction("unpauseTrading",
                     [config |-> virtualPoolState.v.config,
                      pool |-> params.virtualPool,
                      feeClaimer |-> params.feeClaimer]))

\* PoolService.swap as far as the accounts of the instruction go; the
\* amounts are positive, so validateSwapAmount passes
swapTransaction(params, chain) ==
    LET poolState == getPool(chain, params.pool)
    IN  IF ~poolState.defined
        THEN Throw("Pool not found: " \o params.pool)
        ELSE IF ~getPoolConfig(chain, poolState.v.config).defined
        THEN Throw("Pool config not found for virtual pool")
        ELSE Ret(Instruction("swap",
                     [config |-> poolState.v.config, pool |-> params.pool,
                      payer |-> params.owner]))

\* the error of a requirement that is not met
Unmet(met, error) == IF met THEN {} ELSE {error}

\* the requirements of an instruction that the pool and the signer do not
\* meet; the documents name no error for a signer that is not the fee claimer
Failures(tx, signer, chain) ==
    IF tx.method = "swap"
    THEN Unmet(~chain.isPaused, "TradingIsPaused")
    ELSE Unmet(signer = tx.accounts.feeClaimer
                   /\ tx.accounts.feeClaimer = chain.feeClaimer, "Unauthorized")
         \cup Unmet(chain.pausableMode = Pausable, "PausableModeNotEnabled")
         \cup IF tx.method = "unpauseTrading"
              THEN Unmet(chain.isPaused, "TradingIsNotPaused")
              ELSE {}

\* the pool after the program accepted an instruction
Accepted(tx, chain) ==
    IF tx.method = "pauseTrading" THEN [chain EXCEPT !.isPaused = TRUE]
    ELSE IF tx.method = "unpauseTrading" THEN [chain EXCEPT !.isPaused = FALSE]
    ELSE [chain EXCEPT !.accepted = Min(@ + 1, MaxSwaps)]

\* the pool after the program rejected an instruction
Rejected(tx, chain) ==
    IF tx.method = "swap" THEN [chain EXCEPT !.blocked = Min(@ + 1, MaxSwaps)]
    ELSE chain

\* what sending a built transaction can end with: the error of the service
\* that built it, the error of a requirement of the program that is not met
\* (which one, when several are not met, is the program's choice), or the
\* instruction taking effect
Send(built, signer, chain) ==
    IF ~built.ok THEN {[out |-> built, chain |-> chain]}
    ELSE IF Failures(built.v, signer, chain) = {}
    THEN {[out |-> Ret(built.v.method), chain |-> Accepted(built.v, chain)]}
    ELSE {[out |-> Throw(e), chain |-> Rejected(built.v, chain)] :
             e \in Failures(built.v, signer, chain)}

InitPause ==
    /\ op = "created"
    /\ args = Idle
    /\ out = Idle
    /\ \E mode \in {NotPausable, Pausable} :
           locals = [pausableMode |-> mode, feeClaimer |-> "partner",
                     isPaused |-> FALSE, accepted |-> 0, blocked |-> 0]

PauseTrading ==
    \E signer \in Signers, feeClaimer \in Signers, virtualPool \in PoolAddresses :
        /\ op' = "pauseTrading"
        /\ args' = [signer |-> signer, feeClaimer |-> feeClaimer,
                    virtualPool |-> virtualPool]
        /\ \E sent \in Send(pauseTrading(args', locals), signer, locals) :
               /\ out' = sent.out
               /\ locals' = sent.chain

UnpauseTrading ==
    \E signer \in Signers, feeClaimer \in Signers, virtualPool \in PoolAddresses :
        /\ op' = "unpauseTrading"
        /\ args' = [signer |-> signer, feeClaimer |-> feeClaimer,
                    virtualPool |-> virtualPool]
        /\ \E sent \in Send(unpauseTrading(args', locals), signer, locals) :
               /\ out' = sent.out
               /\ locals' = sent.chain

SwapOnPool ==
    \E owner \in Signers, pool \in PoolAddresses :
        /\ op' = "swap"
        /\ args' = [signer |-> owner, owner |-> owner, pool |-> pool]
        /\ \E sent \in Send(swapTransaction(args', locals), owner, locals) :
               /\ out' = sent.out
               /\ locals' = sent.chain

NextPause ==
    \/ PauseTrading
    \/ UnpauseTrading
    \/ SwapOnPool

SpecPause == InitPause /\ [][NextPause]_vars

\* a pause or unpause of the pool, signed by the fee claimer it names, who is
\* the partner of the config
ByPartner ==
    /\ args'.virtualPool = "pool"
    /\ args'.signer = locals.feeClaimer
    /\ args'.feeClaimer = locals.feeClaimer

NoFlag == [defined |-> FALSE, v |-> FALSE]

FeatureRequests ==
    {[fn |-> r.fn,
      p |-> r.p @@ [taxedSellingEnabled |-> t, bondingCurveExpiryDays |-> d]] :
        r \in {q \in PureRequests : q.p.migrationOption = MET_DAMM_V2},
        t \in {NoFlag, Some(FALSE), Some(TRUE)},
        d \in {None, Some(0), Some(7)}}

InitFeatures ==
    /\ op = "request"
    /\ args \in FeatureRequests
    /\ out = Idle
    /\ locals = Idle

NextFeatures ==
    \/ BuildCurve
    \/ BuildCurveWithMarketCap
    \/ BuildCurveWithTwoSegments
    \/ BuildCurveWithMidPrice
    \/ BuildCurveWithLiquidityWeights

SpecFeatures == InitFeatures /\ [][NextFeatures]_vars

\* C15: the configuration a strategy returns carries taxedSellingEnabled as 1
\* when the parameter is true and 0 when it is false or left out, and
\* bondingCurveExpiryDays as the days given, 0 when left out.
C15_FeaturesCarried ==
    (op \in BuildOps /\ out.ok) =>
        /\ "taxedSellingEnabled" \in DOMAIN out.v
        /\ "bondingCurveExpiryDays" \in DOMAIN out.v
        /\ out.v.taxedSellingEnabled =
               (IF args.p.taxedSellingEnabled.defined /\ args.p.taxedSellingEnabled.v
                THEN 1 ELSE 0)
        /\ out.v.bondingCurveExpiryDays = OrZero(args.p.bondingCurveExpiryDays)

(***************************************************************************)
(* Pools of existing tokens and the addresses derived for them.  A public  *)
(* key is a number (keys are compared as bytes) or a name; a program       *)
(* derived address is the pair of its seeds and the program it was derived *)
(* under.                                                                   *)
(***************************************************************************)
SPL == 0
Token2022 == 1

DYNAMIC_BONDING_CURVE_PROGRAM_ID == "dbcij3LWUppWqq96dh6gJWwBifmcGfLSB5D4DuSMaqN"
DYNAMIC_BONDING_CURVE_PROGRAM_ID_DEVNET == "FP72VdSGjvExv1cnz9TYeJZ1DXDeX9pBFEo574VaST8H"
TOKEN_PROGRAM_ID == "TOKEN_PROGRAM_ID"
TOKEN_2022_PROGRAM_ID == "TOKEN_2022_PROGRAM_ID"

\* PublicKey.findProgramAddressSync, first component of the result
findProgramAddressSync(seeds, programId) == [seeds |-> seeds, programId |-> programId]

\* a programId argument that was left out
NoProgramId == [defined |-> FALSE, v |-> ""]

\* a derivation under the program id given, the devnet program when none is
deriveDbcPoolAddressUnderProgramId(quoteMint, baseMint, config, programId) ==
    findProgramAddressSync(
        <<"pool", config, Max(quoteMint, baseMint), Min(quoteMint, baseMint)>>,
        IF programId.defined THEN programId.v
        ELSE DYNAMIC_BONDING_CURVE_PROGRAM_ID_DEVNET)

deriveDbcPoolAddress(quoteMint, baseMint, config, programId) ==
    LET isQuoteMintBiggerThanBaseMint == quoteMint > baseMint
    IN  findProgramAddressSync(
            <<"pool", config,
              IF isQuoteMintBiggerThanBaseMint THEN quoteMint ELSE baseMint,
              IF isQuoteMintBiggerThanBaseMint THEN baseMint ELSE quoteMint>>,
            DYNAMIC_BONDING_CURVE_PROGRAM_ID_DEVNET)

deriveDbcTokenVaultAddress(pool, mint, programId) ==
    findProgramAddressSync(
        <<"token_vault", mint, pool>>,
        IF programId.defined THEN programId.v ELSE DYNAMIC_BONDING_CURVE_PROGRAM_ID)

\* the associated token account of an owner for a mint of a token program
findAssociatedTokenAddress(walletAddress, tokenMintAddress, tokenProgramId) ==
    [owner |-> walletAddress, mint |-> tokenMintAddress, program |-> tokenProgramId]

\* the config accounts: one of each token type, with quote mint 2
QuoteMintOfConfigs == 2
getPoolConfigAt(config) ==
    IF config = "splConfig"
    THEN Some([tokenType |-> SPL, quoteMint |-> QuoteMintOfConfigs])
    ELSE IF config = "token2022Config"
    THEN Some([tokenType |-> Token2022, quoteMint |-> QuoteMintOfConfigs])
    ELSE None

\* the accounts both instructions are given
ExistingTokenAccounts(params, quoteMint, programId, tokenProgram) ==
    LET pool == deriveDbcPoolAddress(quoteMint, params.existingTokenMint,
                                     params.config, Some(programId))
    IN  [pool |-> pool,
         config |-> params.config,
         payer |-> params.payer,
         creator |-> params.poolCreator,
         creatorTokenAccount |->
             findAssociatedTokenAddress(params.poolCreator,
                                        params.existingTokenMint, tokenProgram),
         baseMint |-> params.existingTokenMint,
         baseVault |-> deriveDbcTokenVaultAddress(pool, params.existingTokenMint,
                                                  Some(programId)),
         quoteVault |-> deriveDbcTokenVaultAddress(pool, quoteMint, Some(programId)),
         quoteMint |-> quoteMint,
         tokenQuoteProgram |-> TOKEN_PROGRAM_ID,
         tokenProgram |-> tokenProgram]

\* a createPoolWithExistingSplToken that did not look at the token type
createPoolWithExistingSplTokenUnchecked(params, programId) ==
    Ret(Instruction("initializeVirtualPoolWithExistingSplToken",
            ExistingTokenAccounts(params, QuoteMintOfConfigs, programId,
                                  TOKEN_PROGRAM_ID)))

createPoolWithExistingSplToken(params, programId) ==
    LET poolConfigState == getPoolConfigAt(params.config)
    IN  IF ~poolConfigState.defined THEN Throw("Pool config not found")
        ELSE IF poolConfigState.v.tokenType # SPL
        THEN Throw("Config token type must be SPL for this instruction")
        ELSE Ret(Instruction("initializeVirtualPoolWithExistingSplToken",
                     ExistingTokenAccounts(params, poolConfigState.v.quoteMint,
                                           programId, TOKEN_PROGRAM_ID)))

createPoolWithExistingToken2022(params, programId) ==
    LET poolConfigState == getPoolConfigAt(params.config)
    IN  IF ~poolConfigState.defined THEN Throw("Pool config not found")
        ELSE IF poolConfigState.v.tokenType # Token2022
        THEN Throw("Config token type must be Token2022 for this instruction")
        ELSE Ret(Instruction("initializeVirtualPoolWithExistingToken2022",
                     ExistingTokenAccounts(params, poolConfigState.v.quoteMint,
                                           programId, TOKEN_2022_PROGRAM_ID)))

ProgramIds == {DYNAMIC_BONDING_CURVE_PROGRAM_ID, DYNAMIC_BONDING_CURVE_PROGRAM_ID_DEVNET}
\* base mints below and above the quote mint
ExistingTokenMints == {1, 3, 4}

CreatePoolRequests ==
    {[fn |-> fn,
      p |-> [payer |-> payer, config |-> config, poolCreator |-> poolCreator,
             existingTokenMint |-> mint],
      programId |-> programId] :
        fn \in {"createPoolWithExistingSplToken", "createPoolWithExistingToken2022"},
        payer \in {"payer", "creator"}, poolCreator \in {"creator", "other"},
        config \in {"splConfig", "token2022Config", "missing"},
        mint \in ExistingTokenMints, programId \in ProgramIds}

DeriveRequests ==
    {[fn |-> "deriveDbcPoolAddress",
      p |-> [quoteMint |-> QuoteMintOfConfigs, baseMint |-> mint,
             config |-> config, programId |-> programId]] :
        mint \in ExistingTokenMints, config \in {"splConfig", "token2022Config"},
        programId \in {NoProgramId} \cup {Some(id) : id \in ProgramIds}}

InitCreatePool ==
    /\ op = "request"
    /\ args \in CreatePoolRequests \cup DeriveRequests
    /\ out = Idle
    /\ locals = Idle

CreatePoolWithExistingSplToken ==
    /\ op = "request"
    /\ args.fn = "createPoolWithExistingSplToken"
    /\ op' = "createPoolWithExistingSplToken"
    /\ out' = createPoolWithExistingSplToken(args.p, args.programId)
    /\ UNCHANGED <<args, locals>>

CreatePoolWithExistingToken2022 ==
    /\ op = "request"
    /\ args.fn = "createPoolWithExistingToken2022"
    /\ op' = "createPoolWithExistingToken2022"
    /\ out' = createPoolWithExistingToken2022(args.p, args.programId)
    /\ UNCHANGED <<args, locals>>

DeriveDbcPoolAddress ==
    /\ op = "request"
    /\ args.fn = "deriveDbcPoolAddress"
    /\ op' = "deriveDbcPoolAddress"
    /\ out' = Ret(deriveDbcPoolAddress(args.p.quoteMint, args.p.baseMint,
                                       args.p.config, args.p.programId))
    /\ UNCHANGED <<args, locals>>

NextCreatePool ==
    \/ CreatePoolWithExistingSplToken
    \/ CreatePoolWithExistingToken2022
    \/ DeriveDbcPoolAddress

SpecCreatePool == InitCreatePool /\ [][NextCreatePool]_vars

CreatePoolOps == {"createPoolWithExistingSplToken", "createPoolWithExistingToken2022"}

\* C16: deriveDbcPoolAddress derives the pool under the program id it is
\* given and under the devnet program only when none is given, so that the
\* pool of a pool-creation transaction is derived under the program id its
\* vaults are derived under.
C16_PoolUnderProgramId ==
    /\ op = "deriveDbcPoolAddress" =>
           out.v = deriveDbcPoolAddressUnderProgramId(args.p.quoteMint,
                       args.p.baseMint, args.p.config, args.p.programId)
    /\ (op \in CreatePoolOps /\ out.ok) =>
           /\ out.v.accounts.pool.programId = args.programId
           /\ out.v.accounts.pool.programId = out.v.accounts.baseVault.programId
           /\ out.v.accounts.pool.programId = out.v.accounts.quoteVault.programId

\* C19: createPoolWithExistingSplToken builds its transaction exactly when
\* the config is found and its token type is SPL, and
\* createPoolWithExistingToken2022 exactly when it is found and its token
\* type is Token2022; a config that is not found or is of the other type
\* ends in an error and no transaction.
C19_TokenTypeMatches ==
    (op \in CreatePoolOps) =>
        LET config == getPoolConfigAt(args.p.config)
            wanted == IF op = "createPoolWithExistingSplToken" THEN SPL ELSE Token2022
        IN  /\ out.ok <=> (config.defined /\ config.v.tokenType = wanted)
            /\ out.ok =>
                   /\ out.v.method =
                          (IF wanted = SPL
                           THEN "initializeVirtualPoolWithExistingSplToken"
                           ELSE "initializeVirtualPoolWithExistingToken2022")
                   /\ out.v.accounts.baseMint = args.p.existingTokenMint
                   /\ out.v.accounts.config = args.p.config
            /\ ~config.defined => out = Throw("Pool config not found")
            /\ (config.defined /\ config.v.tokenType # wanted) =>
                   out = Throw(IF wanted = SPL
                               THEN "Config token type must be SPL for this instruction"
                               ELSE "Config token type must be Token2022 for this instruction")

\* a pool of an existing SPL token was built on an SPL config
C19_Witness ==
    /\ op = "createPoolWithExistingSplToken"
    /\ args.p.config = "splConfig"
    /\ out.ok
    /\ out.v.method = "initializeVirtualPoolWithExistingSplToken"

(***************************************************************************)
(* Surplus withdrawals.  A transaction is the instruction of the program   *)
(* with the instructions placed before and after it.                      *)
(***************************************************************************)
NATIVE_MINT == "So11111111111111111111111111111111111111112"
TREASURY_ADDRESS == "TREASURY_ADDRESS"

\* getTokenProgram: the token program of a token flag
getTokenProgram(flag) == IF flag = 0 THEN TOKEN_PROGRAM_ID ELSE TOKEN_2022_PROGRAM_ID

\* getOrCreateATAInstruction: the associated token account of the owner and
\* the instruction that creates it, undefined when the account exists
getOrCreateATAInstruction(existing, tokenMint, owner, payer, tokenProgram) ==
    LET ataPubkey == findAssociatedTokenAddress(owner, tokenMint, tokenProgram)
    IN  [ataPubkey |-> ataPubkey,
         ix |-> IF ataPubkey \in existing THEN <<>>
                ELSE <<[kind |-> "createAssociatedTokenAccount", payer |-> payer,
                        account |-> ataPubkey]>>]

\* unwrapSOLInstruction: closes the owner's wrapped SOL account, sending the
\* lamports to the receiver
unwrapSOLInstruction(owner, receiver) ==
    [kind |-> "closeAccount",
     account |-> findAssociatedTokenAddress(owner, NATIVE_MINT, TOKEN_PROGRAM_ID),
     destination |-> receiver, authority |-> owner]

Transaction(method, accounts, preInstructions, postInstructions) ==
    [method |-> method, accounts |-> accounts,
     preInstructions |-> preInstructions, postInstructions |-> postInstructions]

\* params: virtualPool and feeClaimer; state: what getPool and getPoolConfig
\* answer and the token accounts that exist
partnerWithdrawSurplus(params, state) ==
    IF ~state.pool.defined THEN Throw("Pool not found: " \o params.virtualPool)
    ELSE IF ~state.config.defined THEN Throw("Pool config not found for virtual pool")
    ELSE LET poolConfigState == state.config.v
             tokenQuoteProgram == getTokenProgram(poolConfigState.quoteTokenFlag)
             ata == getOrCreateATAInstruction(state.existing,
                        poolConfigState.quoteMint, params.feeClaimer,
                        params.feeClaimer, tokenQuoteProgram)
         IN  Ret(Transaction("partnerWithdrawSurplus",
                     [poolAuthority |-> "poolAuthority",
                      config |-> state.pool.v.config,
                      virtualPool |-> params.virtualPool,
                      tokenQuoteAccount |-> ata.ataPubkey,
                      quoteVault |-> state.pool.v.quoteVault,
                      quoteMint |-> poolConfigState.quoteMint,
                      feeClaimer |-> params.feeClaimer,
                      tokenQuoteProgram |-> tokenQuoteProgram],
                     ata.ix,
                     IF poolConfigState.quoteMint = NATIVE_MINT
                     THEN <<unwrapSOLInstruction(params.feeClaimer, params.feeClaimer)>>
                     ELSE <<>>))

protocolWithdrawSurplus(params, state) ==
    IF ~state.pool.defined THEN Throw("Pool not found: " \o params.virtualPool)
    ELSE IF ~state.config.defined THEN Throw("Pool config not found for virtual pool")
    ELSE LET poolConfigState == state.config.v
             tokenQuoteProgram == getTokenProgram(poolConfigState.quoteTokenFlag)
             ata == getOrCreateATAInstruction(state.existing,
                        poolConfigState.quoteMint, TREASURY_ADDRESS,
                        TREASURY_ADDRESS, tokenQuoteProgram)
         IN  Ret(Transaction("protocolWithdrawSurplus",
                     [poolAuthority |-> "poolAuthority",
                      config |-> state.pool.v.config,
                      virtualPool |-> params.virtualPool,
                      tokenQuoteAccount |-> ata.ataPubkey,
                      quoteVault |-> state.pool.v.quoteVault,
                      quoteMint |-> poolConfigState.quoteMint,
                      tokenQuoteProgram |-> tokenQuoteProgram],
                     ata.ix,
                     <<>>))

QuoteMints == {NATIVE_MINT, "USDC"}
\* an account that is not found, next to those of its kind that are
NotFound(account) == [defined |-> FALSE, v |-> account]
PoolAccount == [config |-> "config", quoteVault |-> "quoteVault"]
ConfigAccounts == {[quoteMint |-> m, quoteTokenFlag |-> f] : m \in QuoteMints, f \in {0, 1}}
\* the accounts read: no pool, a pool without config, a pool with its config
WithdrawStates ==
    {[pool |-> pool, config |-> config, existing |-> existing] :
        pool \in {NotFound(PoolAccount), Some(PoolAccount)},
        config \in {NotFound([quoteMint |-> "", quoteTokenFlag |-> 0])}
                       \cup {Some(c) : c \in ConfigAccounts},
        existing \in SUBSET {findAssociatedTokenAddress(o, NATIVE_MINT, TOKEN_PROGRAM_ID) :
                                 o \in {"partner", TREASURY_ADDRESS}}}

WithdrawRequests ==
    {[fn |-> fn, p |-> [virtualPool |-> "pool", feeClaimer |-> f], state |-> s] :
        fn \in {"partnerWithdrawSurplus", "protocolWithdrawSurplus"},
        f \in {"partner", "creator"}, s \in WithdrawStates}

InitWithdraw ==
    /\ op = "request"
    /\ args \in WithdrawRequests
    /\ out = Idle
    /\ locals = Idle

PartnerWithdrawSurplus ==
    /\ op = "request"
    /\ args.fn = "partnerWithdrawSurplus"
    /\ op' = "partnerWithdrawSurplus"
    /\ out' = partnerWithdrawSurplus(args.p, args.state)
    /\ UNCHANGED <<args, locals>>

ProtocolWithdrawSurplus ==
    /\ op = "request"
    /\ args.fn = "protocolWithdrawSurplus"
    /\ op' = "protocolWithdrawSurplus"
    /\ out' = protocolWithdrawSurplus(args.p, args.state)
    /\ UNCHANGED <<args, locals>>

NextWithdraw ==
    \/ PartnerWithdrawSurplus
    \/ ProtocolWithdrawSurplus

SpecWithdraw == InitWithdraw /\ [][NextWithdraw]_vars

\* the instructions after the withdrawal close a wrapped SOL account
UnwrapsSol(tx) ==
    \E i \in DOMAIN tx.postInstructions : tx.postInstructions[i].kind = "closeAccount"

\* C17: a surplus withdrawal, by the partner or by the protocol, whose quote
\* mint is native SOL carries an instruction after the withdrawal that
\* unwraps the SOL withdrawn, and carries none for another quote mint.
C17_WithdrawUnwrapsSol ==
    (op \in {"partnerWithdrawSurplus", "protocolWithdrawSurplus"} /\ out.ok) =>
        (UnwrapsSol(out.v) <=> out.v.accounts.quoteMint = NATIVE_MINT)

(***************************************************************************)
(* The curve of buildCurveWithLiquidityWeights                             *)
(***************************************************************************)
\* the price a segment starts at: the start price, or the upper price of the
\* segment before it
SegmentStart(i, sqrtStartPrice, curve) ==
    IF i = 1 THEN sqrtStartPrice ELSE curve[i - 1].sqrtPrice

\* C18: the curve buildCurveWithLiquidityWeights returns has one segment per
\* weight (NumWeights, 16 in the source); it starts at the sqrt price of the
\* initial market cap, each upper sqrt price but the last is the one before
\* it times the NumWeights-th root of the price ratio, rounded down, and the
\* last is the sqrt price of the migration market cap; the liquidities are
\* one common scalar times the weights, rounded down.
C18_WeightedGeometricCurve ==
    (op = "buildCurveWithLiquidityWeights" /\ out.ok) =>
        LET p == args.p
            curve == out.v.curve
            w == p.liquidityWeights
            pMin == getSqrtPriceFromMarketCap(p.initialMarketCap,
                        p.totalTokenSupply, p.tokenBaseDecimal,
                        p.tokenQuoteDecimal).v
            pMax == getSqrtPriceFromMarketCap(p.migrationMarketCap,
                        p.totalTokenSupply, p.tokenBaseDecimal,
                        p.tokenQuoteDecimal).v
            q == DecRoot(Dec(pMax, pMin), NumWeights)
        IN  /\ Len(curve) = NumWeights
            /\ out.v.sqrtStartPrice = pMin
            /\ curve[NumWeights].sqrtPrice = pMax
            /\ \A i \in 1..(NumWeights - 1) :
                   curve[i].sqrtPrice =
                       DecFloor(DecMul(q, DecInt(SegmentStart(i, pMin, curve))))
            \* some l1 >= 0 has floor(l1 * w[i]) = curve[i].liquidity for all i
            /\ \A i \in 1..NumWeights :
                   /\ w[i] >= 0
                   /\ curve[i].liquidity >= 0
                   /\ w[i] = 0 => curve[i].liquidity = 0
            /\ \A i, j \in 1..NumWeights :
                   (w[i] > 0 /\ w[j] > 0) =>
                       curve[i].liquidity * w[j] < (curve[j].liquidity + 1) * w[i]

\* a curve was built from weights that differ, every segment with liquidity
C18_Witness ==
    /\ op = "buildCurveWithLiquidityWeights"
    /\ out.ok
    /\ \E i, j \in 1..NumWeights :
           args.p.liquidityWeights[i] # args.p.liquidityWeights[j]
    /\ \A i \in 1..NumWeights : out.v.curve[i].liquidity > 0
    /\ out.v.curve[1].sqrtPrice < out.v.curve[NumWeights].sqrtPrice

(***************************************************************************)
(* The verification pass at the boundary of the leftover                   *)
(***************************************************************************)
\* by how much the supply reconstructed from a candidate exceeds the declared
\* total supply, next to the declared leftover
Excess(p, m, sqrtStartPrice, curve) ==
    LET totalDynamicSupply ==
            getTotalSupplyFromCurve(m.migrationQuoteThresholdInLamport,
                sqrtStartPrice, curve, m.lockedVesting, p.migrationOption,
                m.totalLeftover, p.migrationFee.feePercentage)
    IN  IF ~totalDynamicSupply.ok THEN totalDynamicSupply
        ELSE Ret([excess |-> totalDynamicSupply.v - m.totalSupply,
                  totalLeftover |-> m.totalLeftover])

\* the candidate of buildCurveWithTwoSegments
TwoSegmentsExcess(p, m) ==
    IF ~m.ok THEN m
    ELSE LET found == TwoSegmentsLoop(1, midPrices(m.v.initialSqrtPrice,
                                                   m.v.migrateSqrtPrice), m.v)
         IN  IF ~found.ok THEN found
             ELSE Excess(p, m.v, found.v.sqrtStartPrice, found.v.curve)

\* the candidate of buildCurveWithMidPrice
MidPriceExcess(p, m) ==
    IF ~m.ok THEN m
    ELSE LET midSqrtPrice == getSqrtPriceFromPrice(p.midPrice, p.tokenBaseDecimal,
                                                   p.tokenQuoteDecimal)
             result == getTwoCurve(m.v.migrateSqrtPrice, midSqrtPrice.v,
                           m.v.initialSqrtPrice, m.v.swapAmount,
                           m.v.migrationQuoteThresholdInLamport)
         IN  IF ~midSqrtPrice.ok THEN midSqrtPrice
             ELSE IF ~result.ok THEN result
             ELSE Excess(p, m.v, result.v.sqrtStartPrice, result.v.curve)

\* the candidate of buildCurveWithLiquidityWeights
LiquidityWeightsExcess(p, r) ==
    IF ~r.ok THEN r
    ELSE Excess(p, r.v, r.v.pMin, r.v.curve)

\* the candidate of the strategy that ran, when it came to its verification
CandidateExcess ==
    IF op = "buildCurveWithTwoSegments"
    THEN TwoSegmentsExcess(args.p, MarketCapLocals(args.p))
    ELSE IF op = "buildCurveWithMidPrice"
    THEN MidPriceExcess(args.p, MarketCapLocals(args.p))
    ELSE IF op = "buildCurveWithLiquidityWeights"
    THEN LiquidityWeightsExcess(args.p,
             LiquidityWeightsMigration(args.p,
                 LiquidityWeightsCurve(args.p, LiquidityWeightsPrices(args.p))))
    ELSE Throw("no verification pass")

\* C20: in buildCurveWithTwoSegments, buildCurveWithMidPrice and
\* buildCurveWithLiquidityWeights a candidate whose reconstructed supply is
\* above the declared total supply by at most the declared leftover is
\* accepted, the excess equal to the leftover included; the build fails in
\* the verification pass only when the excess is more than the leftover.
C20_ExcessUpToLeftoverAccepted ==
    CandidateExcess.ok =>
        (out.ok <=> CandidateExcess.v.excess <= CandidateExcess.v.totalLeftover)

\* C20, as the source has it: a candidate is accepted when its reconstructed
\* supply is not above the declared total supply or is above it by less than
\* the declared leftover; an excess equal to the leftover, or more, fails the
\* build with "leftOverDelta must be less than totalLeftover".
C20_ExcessBelowLeftoverAccepted ==
    CandidateExcess.ok =>
        LET c == CandidateExcess.v
        IN  /\ out.ok <=> (c.excess <= 0 \/ c.excess < c.totalLeftover)
            /\ ~out.ok => out = Throw("leftOverDelta must be less than totalLeftover")

\* a candidate above the total supply by exactly the leftover was rejected
C20_Witness ==
    /\ op \in {"buildCurveWithTwoSegments", "buildCurveWithMidPrice"}
    /\ CandidateExcess.ok
    /\ CandidateExcess.v.excess > 0
    /\ CandidateExcess.v.excess = CandidateExcess.v.totalLeftover
    /\ out = Throw("leftOverDelta must be less than totalLeftover")

(***************************************************************************)
(* Specification of the fee parameter functions called on their own:       *)
(* getBaseFeeParams, getFeeSchedulerParams, getRateLimiterParams,          *)
(* calculateFeeSchedulerEndingBaseFeeBps and getMigratedPoolFeeParams,     *)
(* each run once on its arguments.                                         *)
(***************************************************************************)

\* linear schedules of any number of periods; exponential ones of at most
\* one period (see ExponentialReductionFactor)
FeeSchedulerRequests ==
    {[fn |-> "getFeeSchedulerParams",
      p |-> [startingBaseFeeBps |-> s, endingBaseFeeBps |-> e,
             baseFeeMode |-> mode, numberOfPeriod |-> n,
             totalDuration |-> d]] :
        s \in {10, 25, 100, 9900, 9950}, e \in {0, 10, 25, 100, 9950},
        mode \in {FeeSchedulerLinear, FeeSchedulerExponential},
        n \in {-1, 0, 1}, d \in {0, 10}}
    \cup
    {[fn |-> "getFeeSchedulerParams",
      p |-> [startingBaseFeeBps |-> s, endingBaseFeeBps |-> e,
             baseFeeMode |-> FeeSchedulerLinear, numberOfPeriod |-> n,
             totalDuration |-> d]] :
        s \in {10, 25, 100, 9900, 9950}, e \in {0, 10, 25, 100, 9950},
        n \in {3, 7}, d \in {0, 10}}

RateLimiterRequests ==
    {[fn |-> "getRateLimiterParams",
      p |-> [baseFeeBps |-> b, feeIncrementBps |-> i, referenceAmount |-> r,
             maxLimiterDuration |-> d, tokenQuoteDecimal |-> 0,
             activationType |-> a]] :
        b \in {-1, 0, 25, 100}, i \in {-1, 0, 10}, r \in {-1, 0, 1},
        d \in {-1, 0, 10, MAX_RATE_LIMITER_DURATION_IN_SECONDS,
               MAX_RATE_LIMITER_DURATION_IN_SECONDS + 1,
               MAX_RATE_LIMITER_DURATION_IN_SLOTS,
               MAX_RATE_LIMITER_DURATION_IN_SLOTS + 1},
        a \in {ActivationSlot, ActivationTimestamp}}

GetFeeSchedulerParams ==
    /\ op = "request"
    /\ args.fn = "getFeeSchedulerParams"
    /\ op' = "getFeeSchedulerParams"
    /\ out' = getFeeSchedulerParams(args.p.startingBaseFeeBps,
                  args.p.endingBaseFeeBps, args.p.baseFeeMode,
                  args.p.numberOfPeriod, args.p.totalDuration)
    /\ UNCHANGED <<args, locals>>

GetRateLimiterParams ==
    /\ op = "request"
    /\ args.fn = "getRateLimiterParams"
    /\ op' = "getRateLimiterParams"
    /\ out' = getRateLimiterParams(args.p.baseFeeBps, args.p.feeIncrementBps,
                  args.p.referenceAmount, args.p.maxLimiterDuration,
                  args.p.tokenQuoteDecimal, args.p.activationType)
    /\ UNCHANGED <<args, locals>>

RECURSIVE DecPow(_, _)
\* Math.pow(a, n) for a whole n >= 0
DecPow(a, n) == IF n = 0 THEN DecInt(1) ELSE DecMul(a, DecPow(a, n - 1))

\* calculateFeeSchedulerEndingBaseFeeBps without Math.max(0, ...)
calculateFeeSchedulerEndingBaseFeeBpsUnclamped(cliffFeeNumerator, numberOfPeriod, periodFrequency, reductionFactor, baseFeeMode) ==
    IF numberOfPeriod = 0 \/ periodFrequency = 0
    THEN DecMul(Dec(cliffFeeNumerator, FEE_DENOMINATOR),
                DecInt(BASIS_POINT_MAX))
    ELSE DecMul(DecDiv(IF baseFeeMode = FeeSchedulerLinear
                       THEN DecInt(cliffFeeNumerator
                                       - numberOfPeriod * reductionFactor)
                       ELSE DecMul(DecInt(cliffFeeNumerator),
                                   DecPow(Dec(BASIS_POINT_MAX - reductionFactor,
                                              BASIS_POINT_MAX),
                                          numberOfPeriod)),
                       DecInt(FEE_DENOMINATOR)),
                DecInt(BASIS_POINT_MAX))

\* the numbers are JavaScript numbers; the model computes them as exact
\* rationals
calculateFeeSchedulerEndingBaseFeeBps(cliffFeeNumerator, numberOfPeriod, periodFrequency, reductionFactor, baseFeeMode) ==
    IF numberOfPeriod = 0 \/ periodFrequency = 0
    THEN DecMul(Dec(cliffFeeNumerator, FEE_DENOMINATOR),
                DecInt(BASIS_POINT_MAX))
    ELSE LET baseFeeNumerator ==
                 IF baseFeeMode = FeeSchedulerLinear
                 THEN DecInt(cliffFeeNumerator
                                 - numberOfPeriod * reductionFactor)
                 ELSE LET decayRate == Dec(BASIS_POINT_MAX - reductionFactor,
                                           BASIS_POINT_MAX)
                      IN  DecMul(DecInt(cliffFeeNumerator),
                                 DecPow(decayRate, numberOfPeriod))
             bps == DecMul(DecDiv(baseFeeNumerator, DecInt(FEE_DENOMINATOR)),
                           DecInt(BASIS_POINT_MAX))
         IN  IF bps.n < 0 THEN DecInt(0) ELSE bps

EndingBaseFeeRequests ==
    {[fn |-> "calculateFeeSchedulerEndingBaseFeeBps",
      p |-> [cliffFeeNumerator |-> c, numberOfPeriod |-> n,
             periodFrequency |-> f, reductionFactor |-> r,
             baseFeeMode |-> FeeSchedulerLinear]] :
        c \in {0, 1000000, MIN_FEE_NUMERATOR, MAX_FEE_NUMERATOR},
        n \in 0..3, f \in {0, 5}, r \in {0, 5000, 1000000}}
    \cup
    {[fn |-> "calculateFeeSchedulerEndingBaseFeeBps",
      p |-> [cliffFeeNumerator |-> c, numberOfPeriod |-> n,
             periodFrequency |-> f, reductionFactor |-> r,
             baseFeeMode |-> FeeSchedulerExponential]] :
        c \in {0, 1000000, MIN_FEE_NUMERATOR, MAX_FEE_NUMERATOR},
        n \in 0..3, f \in {0, 5}, r \in {0, 5000, 10000, 12000}}

CalculateFeeSchedulerEndingBaseFeeBps ==
    /\ op = "request"
    /\ args.fn = "calculateFeeSchedulerEndingBaseFeeBps"
    /\ op' = "calculateFeeSchedulerEndingBaseFeeBps"
    /\ out' = Ret(calculateFeeSchedulerEndingBaseFeeBps(
                      args.p.cliffFeeNumerator, args.p.numberOfPeriod,
                      args.p.periodFrequency, args.p.reductionFactor,
                      args.p.baseFeeMode))
    /\ UNCHANGED <<args, locals>>

\* migration options and fee options of the enums, and one option outside;
\* migratedPoolFee omitted, all zero, or with values of its own
MigratedPoolFeeRequests ==
    {[fn |-> "getMigratedPoolFeeParams",
      p |-> [migrationOption |-> m, migrationFeeOption |-> f,
             migratedPoolFee |-> fee]] :
        m \in {MET_DAMM, MET_DAMM_V2, NO_MIGRATION, NO_MIGRATION + 1},
        f \in 0..Customizable,
        fee \in {UndefinedPoolFee, MigratedPoolFee(0, 0, 0),
                 MigratedPoolFee(1, 1, 100), MigratedPoolFee(0, 1, 25)}}

GetMigratedPoolFeeParams ==
    /\ op = "request"
    /\ args.fn = "getMigratedPoolFeeParams"
    /\ op' = "getMigratedPoolFeeParams"
    /\ out' = Ret(getMigratedPoolFeeParams(args.p.migrationOption,
                      args.p.migrationFeeOption, args.p.migratedPoolFee))
    /\ UNCHANGED <<args, locals>>

FeeRequests ==
    BaseFeeRequests \cup FeeSchedulerRequests \cup RateLimiterRequests
        \cup EndingBaseFeeRequests \cup MigratedPoolFeeRequests

InitFees ==
    /\ op = "request"
    /\ args \in FeeRequests
    /\ out = Idle
    /\ locals = Idle

NextFees ==
    \/ GetBaseFeeParams
    \/ GetFeeSchedulerParams
    \/ GetRateLimiterParams
    \/ CalculateFeeSchedulerEndingBaseFeeBps
    \/ GetMigratedPoolFeeParams

SpecFees == InitFees /\ [][NextFees]_vars

\* C21: malformed fee parameters are rejected with an error.
\* getBaseFeeParams fails when the mode is RateLimiter and rateLimiterParam
\* is missing, or the mode is a fee scheduler and feeSchedulerParam is
\* missing; getFeeSchedulerParams fails when endingFeeBps > startingFeeBps,
\* when the two fees differ and numberOfPeriod <= 0 or totalDuration = 0, and
\* when the two fees are equal but numberOfPeriod or totalDuration is not
\* zero; getRateLimiterParams fails when any of its four numeric parameters
\* is <= 0 or maxLimiterDuration is above the maximum of the activation type.
C21_MalformedFeeRejected ==
    /\ (op = "getBaseFeeParams"
        /\ LET b == args.p.baseFeeParams
           IN  \/ b.baseFeeMode = RateLimiter /\ ~b.hasRateLimiterParam
               \/ b.baseFeeMode # RateLimiter /\ ~b.hasFeeSchedulerParam)
       => (~out.ok /\ out # Idle)
    /\ (op = "getFeeSchedulerParams"
        /\ LET p == args.p
           IN  \/ p.endingBaseFeeBps > p.startingBaseFeeBps
               \/ /\ p.endingBaseFeeBps # p.startingBaseFeeBps
                  /\ (p.numberOfPeriod <= 0 \/ p.totalDuration = 0)
               \/ /\ p.endingBaseFeeBps = p.startingBaseFeeBps
                  /\ (p.numberOfPeriod # 0 \/ p.totalDuration # 0))
       => (~out.ok /\ out # Idle)
    /\ (op = "getRateLimiterParams"
        /\ LET p == args.p
           IN  \/ p.baseFeeBps <= 0
               \/ p.feeIncrementBps <= 0
               \/ p.referenceAmount <= 0
               \/ p.maxLimiterDuration <= 0
               \/ p.maxLimiterDuration >
                      (IF p.activationType = ActivationSlot
                       THEN MAX_RATE_LIMITER_DURATION_IN_SLOTS
                       ELSE MAX_RATE_LIMITER_DURATION_IN_SECONDS))
       => (~out.ok /\ out # Idle)

\* a fee scheduler whose fees differ, with periods but no duration, was
\* rejected by the last check
C21_Witness ==
    /\ op = "getFeeSchedulerParams"
    /\ args.p.endingBaseFeeBps < args.p.startingBaseFeeBps
    /\ args.p.numberOfPeriod > 0
    /\ args.p.totalDuration = 0
    /\ out = Throw("numberOfPeriod and totalDuration must both greater than zero")

\* a rate limiter whose duration is above the maximum of its activation type
\* was rejected
C21_WitnessDuration ==
    /\ op = "getRateLimiterParams"
    /\ args.p.activationType = ActivationTimestamp
    /\ args.p.maxLimiterDuration = MAX_RATE_LIMITER_DURATION_IN_SECONDS + 1
    /\ out = Throw("Max duration exceeds maximum allowed value")

\* a RateLimiter mode without rateLimiterParam was rejected
C21_WitnessMissing ==
    /\ op = "getBaseFeeParams"
    /\ args.p.baseFeeParams.baseFeeMode = RateLimiter
    /\ ~args.p.baseFeeParams.hasRateLimiterParam
    /\ ~out.ok /\ out # Idle

(***************************************************************************)
(* Specification of getLockedVestingParams called on whole-token amounts.  *)
(***************************************************************************)

\* the largest whole-token amount drawn
MaxVesting == 6

VestingRequests ==
    {[fn |-> "getLockedVestingParams",
      p |-> [totalLockedVestingAmount |-> t, numberOfVestingPeriod |-> n,
             cliffUnlockAmount |-> c, totalVestingDuration |-> d,
             cliffDurationFromMigrationTime |-> 0, tokenBaseDecimal |-> k]] :
        t \in 0..MaxVesting, n \in -1..4, c \in 0..(MaxVesting + 1),
        d \in {0, 12}, k \in {0, 1, 2}}

InitVesting ==
    /\ op = "request"
    /\ args \in VestingRequests
    /\ out = Idle
    /\ locals = Idle

GetLockedVestingParams ==
    /\ op = "request"
    /\ args.fn = "getLockedVestingParams"
    /\ op' = "getLockedVestingParams"
    /\ out' = getLockedVestingParams(args.p.totalLockedVestingAmount,
                  args.p.numberOfVestingPeriod, args.p.cliffUnlockAmount,
                  args.p.totalVestingDuration,
                  args.p.cliffDurationFromMigrationTime,
                  args.p.tokenBaseDecimal)
    /\ UNCHANGED <<args, locals>>

NextVesting == GetLockedVestingParams

SpecVesting == InitVesting /\ [][NextVesting]_vars

\* whole tokens in base units
Lamports(amount) == amount * TenPow(args.p.tokenBaseDecimal)

\* C22: whenever getLockedVestingParams returns for whole-token inputs,
\* cliffUnlockAmount + amountPerPeriod * numberOfPeriod equals
\* totalLockedVestingAmount in base units: the remainder of rounding the
\* per-period amount down is added to the cliff, the all-cliff case is a
\* cliff of total - 1 token plus one period of 1 token, and a total of 0
\* gives all-zero parameters.
C22_VestingSumsToTotal ==
    (op = "getLockedVestingParams" /\ out.ok) =>
        LET p == args.p
            v == out.v
            t == p.totalLockedVestingAmount
            c == p.cliffUnlockAmount
            n == p.numberOfVestingPeriod
        IN  /\ getTotalVestingAmount(v) = Lamports(t)
            /\ v.cliffUnlockAmount + v.amountPerPeriod * v.numberOfPeriod
                   = Lamports(t)
            /\ t = 0 => v = LockedVesting(0, 0, 0, 0, 0)
            /\ (t # 0 /\ t = c) =>
                   /\ v.cliffUnlockAmount = Lamports(t - 1)
                   /\ v.numberOfPeriod = 1
                   /\ v.amountPerPeriod = Lamports(1)
            /\ (t # 0 /\ t # c) =>
                   /\ v.numberOfPeriod = n
                   /\ v.amountPerPeriod = Lamports((t - c) \div n)
                   /\ v.cliffUnlockAmount = Lamports(c + ((t - c) % n))

\* a vesting whose per-period amount was rounded down, the remainder added
\* to the cliff
C22_Witness ==
    /\ op = "getLockedVestingParams"
    /\ out.ok
    /\ args.p.tokenBaseDecimal > 0
    /\ args.p.cliffUnlockAmount > 0
    /\ out.v.numberOfPeriod > 1
    /\ out.v.amountPerPeriod > 0
    /\ out.v.cliffUnlockAmount > Lamports(args.p.cliffUnlockAmount)

\* C23: getMigratedPoolFeeParams returns the caller-supplied migrated-pool
\* fee parameters only when the migration option is MET_DAMM_V2 and the fee
\* option is Customizable; for every other combination it returns the
\* default {collectFeeMode 0, dynamicFee 0, poolFeeBps 0} whatever was
\* supplied; and in every case the result is a defined fee object with all
\* three fields.
C23_MigratedPoolFeeDefined ==
    op = "getMigratedPoolFeeParams" =>
        /\ out.v = IF /\ args.p.migrationOption = MET_DAMM_V2
                      /\ args.p.migrationFeeOption = Customizable
                   THEN args.p.migratedPoolFee
                   ELSE MigratedPoolFee(0, 0, 0)
        /\ out.v.defined

\* the liquidity that absorbs, between the migration price and
\* MAX_SQRT_PRICE, the declared total supply less the supply reconstructed
\* from the first segment of the returned curve
UnallocatedLiquidity ==
    LET firstSegment == <<out.v.curve[1]>>
        reconstructed ==
            getTotalSupplyFromCurve(out.v.migrationQuoteThreshold,
                out.v.sqrtStartPrice, firstSegment, out.v.lockedVesting,
                out.v.migrationOption, locals.v.totalLeftover,
                out.v.migrationFee.feePercentage)
    IN  getInitialLiquidityFromDeltaBase(
            out.v.tokenSupply.preMigrationTokenSupply - reconstructed.v,
            MAX_SQRT_PRICE, buildCurvePrices(args.p).v.migrateSqrtPrice)

\* C24: buildCurve returns a curve whose first segment ends at the migration
\* sqrt price and, exactly when the liquidity needed to absorb the
\* unallocated supply between the migration price and MAX_SQRT_PRICE is not
\* zero, a second and final segment ending at MAX_SQRT_PRICE with that
\* liquidity; it never returns more than two segments.
C24_AtMostTwoSegments ==
    (op = "buildCurve" /\ out.ok) =>
        LET curve == out.v.curve
        IN  /\ Len(curve) \in {1, 2}
            /\ curve[1].sqrtPrice = buildCurvePrices(args.p).v.migrateSqrtPrice
            /\ UnallocatedLiquidity.ok
            /\ Len(curve) = 2 <=> UnallocatedLiquidity.v # 0
            /\ Len(curve) = 2 =>
                   curve[2] = Seg(MAX_SQRT_PRICE, UnallocatedLiquidity.v)

\* a returned curve with the second segment
C24_Witness ==
    /\ op = "buildCurve"
    /\ out.ok
    /\ Len(out.v.curve) = 2
    /\ out.v.curve[2].sqrtPrice = MAX_SQRT_PRICE
    /\ out.v.curve[2].liquidity > 0

\* a returned curve of the first segment alone
C24_WitnessSingle ==
    /\ op = "buildCurve"
    /\ out.ok
    /\ Len(out.v.curve) = 1

(***************************************************************************)
(* getCurveBreakdown (helpers/common.ts) and the specification of the two  *)
(* walks of a curve up to the migration threshold, getMigrationThreshold-  *)
(* Price and getCurveBreakdown, each run once on a threshold, a start      *)
(* price and a curve.                                                      *)
(***************************************************************************)
\* j zeros
Zeros(j) == [k \in 1..j |-> 0]

RECURSIVE BreakdownWalk(_, _, _, _, _, _)
\* the loop of getCurveBreakdown from segment i on
BreakdownWalk(i, segmentAmounts, totalAllocated, currentSqrtPrice, migrationQuoteThreshold, curve) ==
    IF i > Len(curve)
    THEN Ret([segmentAmounts |-> segmentAmounts,
              finalSqrtPrice |-> currentSqrtPrice,
              totalAmount |-> totalAllocated])
    ELSE LET lowerSqrtPrice == currentSqrtPrice
             upperSqrtPrice == curve[i].sqrtPrice
             liquidity == curve[i].liquidity
             maxSegmentAmount ==
                 getDeltaAmountQuoteUnsigned(lowerSqrtPrice, upperSqrtPrice,
                                             liquidity, "Up")
             finalSqrtPrice ==
                 getNextSqrtPriceFromInput(lowerSqrtPrice, liquidity,
                                           migrationQuoteThreshold, FALSE)
         IN  IF ~maxSegmentAmount.ok THEN maxSegmentAmount
             ELSE IF maxSegmentAmount.v >= migrationQuoteThreshold
             THEN IF ~finalSqrtPrice.ok THEN finalSqrtPrice
                  ELSE Ret([segmentAmounts |->
                                Append(segmentAmounts, migrationQuoteThreshold)
                                    \o Zeros(Len(curve) - i),
                            finalSqrtPrice |-> finalSqrtPrice.v,
                            totalAmount |->
                                totalAllocated + migrationQuoteThreshold])
             ELSE IF /\ i = Len(curve)
                     /\ totalAllocated + maxSegmentAmount.v
                            < migrationQuoteThreshold
             THEN Throw("Not enough liquidity in curve")
             ELSE BreakdownWalk(i + 1,
                      Append(segmentAmounts, maxSegmentAmount.v),
                      totalAllocated + maxSegmentAmount.v, upperSqrtPrice,
                      migrationQuoteThreshold, curve)

getCurveBreakdown(migrationQuoteThreshold, sqrtStartPrice, curve) ==
    IF Len(curve) = 0 THEN Throw("Curve is empty")
    ELSE BreakdownWalk(1, << >>, 0, sqrtStartPrice, migrationQuoteThreshold,
                       curve)

\* the largest migration threshold drawn
MaxThreshold == 12

\* curves as a configuration holds them: sqrtPrice strictly increasing,
\* liquidity not negative
ThresholdCurves ==
    LET liquidities == {0, 100, Q128}
    IN  {<< >>}
        \cup {<<Seg(a, l)>> : a \in {8, 12, 20}, l \in liquidities}
        \cup {<<Seg(a[1], l1), Seg(a[2], l2)>> :
                 a \in {<<8, 12>>, <<8, 20>>, <<12, 20>>},
                 l1 \in liquidities, l2 \in liquidities}
        \cup {<<Seg(8, l1), Seg(12, l2), Seg(20, l3)>> :
                 l1 \in liquidities, l2 \in liquidities, l3 \in liquidities}

ThresholdRequests ==
    {[fn |-> f,
      p |-> [migrationThreshold |-> t, sqrtStartPrice |-> s, curve |-> c]] :
        f \in {"getMigrationThresholdPrice", "getCurveBreakdown"},
        t \in 0..MaxThreshold, s \in {MIN_SQRT_PRICE, 6}, c \in ThresholdCurves}

InitThreshold ==
    /\ op = "request"
    /\ args \in ThresholdRequests
    /\ out = Idle
    /\ locals = Idle

GetMigrationThresholdPrice ==
    /\ op = "request"
    /\ args.fn = "getMigrationThresholdPrice"
    /\ op' = "getMigrationThresholdPrice"
    /\ out' = getMigrationThresholdPrice(args.p.migrationThreshold,
                  args.p.sqrtStartPrice, args.p.curve)
    /\ UNCHANGED <<args, locals>>

GetCurveBreakdown ==
    /\ op = "request"
    /\ args.fn = "getCurveBreakdown"
    /\ op' = "getCurveBreakdown"
    /\ out' = getCurveBreakdown(args.p.migrationThreshold,
                                args.p.sqrtStartPrice, args.p.curve)
    /\ UNCHANGED <<args, locals>>

NextThreshold ==
    \/ GetMigrationThresholdPrice
    \/ GetCurveBreakdown

SpecThreshold == InitThreshold /\ [][NextThreshold]_vars

\* the price segment i of the request's curve starts at
LowerBound(i) ==
    IF i = 1 THEN args.p.sqrtStartPrice ELSE args.p.curve[i - 1].sqrtPrice
\* the quote capacity of segment i between its bounds, rounded up
Capacity(i) ==
    CeilDiv(args.p.curve[i].liquidity
                * (args.p.curve[i].sqrtPrice - LowerBound(i)), Q128)
RECURSIVE Cumulative(_)
\* the quote capacity of segments 1..i
Cumulative(i) == IF i = 0 THEN 0 ELSE Cumulative(i - 1) + Capacity(i)
RECURSIVE SumOf(_)
SumOf(s) == IF s = << >> THEN 0 ELSE Head(s) + SumOf(Tail(s))

\* C25: whenever getCurveBreakdown returns, for a curve of any length, the
\* per-segment quote amounts sum to totalAmount, totalAmount equals
\* migrationQuoteThreshold, no segment is allocated more than its own quote
\* capacity between its bounds, and finalSqrtPrice equals the price
\* getMigrationThresholdPrice returns for the same threshold, start price
\* and curve.
C25_BreakdownMatchesThreshold ==
    (op = "getCurveBreakdown" /\ out.ok) =>
        /\ Len(out.v.segmentAmounts) = Len(args.p.curve)
        /\ SumOf(out.v.segmentAmounts) = out.v.totalAmount
        /\ out.v.totalAmount = args.p.migrationThreshold
        /\ \A i \in 1..Len(args.p.curve) :
               out.v.segmentAmounts[i] <= Capacity(i)
        /\ Ret(out.v.finalSqrtPrice)
               = getMigrationThresholdPrice(args.p.migrationThreshold,
                     args.p.sqrtStartPrice, args.p.curve)

\* the first segment of the request's curve whose cumulative capacity is
\* above the threshold, from segment i on; Len + 1 if there is none
RECURSIVE FirstAbove(_)
FirstAbove(i) ==
    IF i > Len(args.p.curve) THEN i
    ELSE IF Cumulative(i) > args.p.migrationThreshold THEN i
    ELSE FirstAbove(i + 1)

\* C26: getMigrationThresholdPrice fails with an error exactly when the curve
\* is empty or the total quote capacity of all segments, walked in order from
\* sqrtStartPrice, is less than the migration threshold; otherwise it returns
\* a sqrt price between sqrtStartPrice and the last segment's sqrtPrice that
\* lies in the first segment whose cumulative quote capacity exceeds the
\* threshold, or at a segment boundary when the capacity is met exactly.
C26_ThresholdPrice ==
    op = "getMigrationThresholdPrice" =>
        LET curve == args.p.curve
            n == Len(curve)
            k == FirstAbove(1)
        IN  /\ ~out.ok <=> (n = 0 \/ Cumulative(n) < args.p.migrationThreshold)
            /\ out.ok =>
                   /\ out.v >= args.p.sqrtStartPrice
                   /\ out.v <= curve[n].sqrtPrice
                   /\ k <= n =>
                          /\ out.v >= LowerBound(k)
                          /\ out.v < curve[k].sqrtPrice
                          /\ Cumulative(k - 1) = args.p.migrationThreshold
                                 => out.v = LowerBound(k)
                   /\ k > n =>
                          /\ Cumulative(n) = args.p.migrationThreshold
                          /\ out.v = curve[n].sqrtPrice

\* a threshold met inside the second segment of a curve
C26_Witness ==
    /\ op = "getMigrationThresholdPrice"
    /\ out.ok
    /\ Len(args.p.curve) >= 2
    /\ FirstAbove(1) = 2
    /\ out.v > args.p.curve[1].sqrtPrice
    /\ out.v < args.p.curve[2].sqrtPrice

\* a curve whose whole capacity is below the threshold was rejected
C26_WitnessShort ==
    /\ op = "getMigrationThresholdPrice"
    /\ Len(args.p.curve) = 3
    /\ Cumulative(3) > 0
    /\ Cumulative(3) < args.p.migrationThreshold
    /\ out = Throw("Not enough liquidity")

\* the fee a returned linear schedule reaches after all its periods
LinearEndingFeeNumerator ==
    out.v.cliffFeeNumerator - out.v.firstFactor * out.v.thirdFactor
\* a linear schedule was returned by getFeeSchedulerParams
LinearReturned ==
    /\ op = "getFeeSchedulerParams"
    /\ out.ok
    /\ out.v.baseFeeMode = FeeSchedulerLinear
\* calculateFeeSchedulerEndingBaseFeeBps never returns a negative fee and
\* returns the cliff fee in bps when numberOfPeriod or periodFrequency is 0
EndingBaseFeeBpsClamped ==
    op = "calculateFeeSchedulerEndingBaseFeeBps" =>
        /\ out.v.n >= 0
        /\ (args.p.numberOfPeriod = 0 \/ args.p.periodFrequency = 0) =>
               out.v = Dec(args.p.cliffFeeNumerator,
                           FEE_DENOMINATOR \div BASIS_POINT_MAX)

\* C27: for linear fee-scheduler parameters returned by
\* getFeeSchedulerParams, the fee reached after all periods,
\* cliffFeeNumerator - numberOfPeriod * reductionFactor, is never below the
\* requested ending fee numerator and exceeds it by less than numberOfPeriod;
\* and calculateFeeSchedulerEndingBaseFeeBps never returns a negative fee and
\* returns the cliff fee in bps when numberOfPeriod or periodFrequency is 0.
C27_EndingFeeWithinPeriods ==
    /\ LinearReturned =>
           LET requested == bpsToFeeNumerator(args.p.endingBaseFeeBps)
           IN  /\ LinearEndingFeeNumerator >= requested
               /\ LinearEndingFeeNumerator - requested < out.v.firstFactor
    /\ EndingBaseFeeBpsClamped

\* C27, as the source has it: the fee a returned linear schedule reaches
\* after all periods is never below the requested ending fee numerator; with
\* periods it exceeds it by less than numberOfPeriod, and for equal starting
\* and ending fees (a schedule of zero periods) it equals it.  The part on
\* calculateFeeSchedulerEndingBaseFeeBps is as stated.
C27_EndingFeeWithinPeriodsOrFlat ==
    /\ LinearReturned =>
           LET requested == bpsToFeeNumerator(args.p.endingBaseFeeBps)
           IN  /\ LinearEndingFeeNumerator >= requested
               /\ out.v.firstFactor > 0 =>
                      LinearEndingFeeNumerator - requested < out.v.firstFactor
               /\ out.v.firstFactor = 0 =>
                      /\ args.p.startingBaseFeeBps = args.p.endingBaseFeeBps
                      /\ LinearEndingFeeNumerator = requested
    /\ EndingBaseFeeBpsClamped

\* a linear schedule whose reduction was rounded down: it ends above the
\* requested fee
C27_Witness ==
    /\ LinearReturned
    /\ out.v.firstFactor > 1
    /\ LinearEndingFeeNumerator > bpsToFeeNumerator(args.p.endingBaseFeeBps)

\* a schedule whose periods take the fee below zero ended at a fee of 0
C27_WitnessClamped ==
    /\ op = "calculateFeeSchedulerEndingBaseFeeBps"
    /\ args.p.numberOfPeriod > 0
    /\ args.p.periodFrequency > 0
    /\ args.p.baseFeeMode = FeeSchedulerLinear
    /\ args.p.cliffFeeNumerator
           < args.p.numberOfPeriod * args.p.reductionFactor
    /\ out = Ret(DecInt(0))

(***************************************************************************)
(* PoolService.swap2 (services/pool.ts) and the specification of the swap  *)
(* builders: a swap or swap2 call arrives with its parameters, the         *)
(* accounts the state service finds and the current point of the chain,    *)
(* and builds its transaction once.                                        *)
(***************************************************************************)
SYSVAR_INSTRUCTIONS_PUBKEY == "Sysvar1nstructions1111111111111111111111111"

\* helpers/validation.ts (not in src/): a swap amount must be above zero
validateSwapAmount(amountIn) ==
    IF amountIn <= 0 THEN Throw("Swap amount must be greater than 0")
    ELSE Ret(TRUE)

\* helpers/token.ts (not in src/): moves the lamports into the wrapped SOL
\* account of the owner and syncs it
wrapSOLInstruction(from, to, amount) ==
    <<[kind |-> "transfer", source |-> from, account |-> to,
       lamports |-> amount],
      [kind |-> "syncNative", source |-> from, account |-> to,
       lamports |-> 0]>>

prepareSwapParams(swapBaseForQuote, virtualPoolState, poolConfigState) ==
    IF swapBaseForQuote
    THEN [inputMint |-> virtualPoolState.baseMint,
          outputMint |-> poolConfigState.quoteMint,
          inputTokenProgram |-> getTokenProgram(virtualPoolState.poolType),
          outputTokenProgram |-> getTokenProgram(poolConfigState.quoteTokenFlag)]
    ELSE [inputMint |-> poolConfigState.quoteMint,
          outputMint |-> virtualPoolState.baseMint,
          inputTokenProgram |-> getTokenProgram(poolConfigState.quoteTokenFlag),
          outputTokenProgram |-> getTokenProgram(virtualPoolState.poolType)]

\* services/program.ts (not in src/): the two token accounts of the owner
\* and the instructions that create those that do not exist
prepareTokenAccounts(existing, owner, payer, tokenAMint, tokenBMint, tokenAProgram, tokenBProgram) ==
    [ataTokenA |-> findAssociatedTokenAddress(owner, tokenAMint, tokenAProgram),
     ataTokenB |-> findAssociatedTokenAddress(owner, tokenBMint, tokenBProgram),
     instructions |->
         getOrCreateATAInstruction(existing, tokenAMint, owner, payer,
                                   tokenAProgram).ix
         \o getOrCreateATAInstruction(existing, tokenBMint, owner, payer,
                                      tokenBProgram).ix]

\* swap2 from the rate limiter check to the transaction, on the amounts the
\* mode selected
swap2Build(params, state, currentPoint, amount0, amount1) ==
    LET poolState == state.pool.v
        poolConfigState == state.config.v
        baseFee == poolConfigState.poolFees.baseFee
        rateLimiterApplied ==
            IF baseFee.baseFeeMode = RateLimiter
            THEN isRateLimiterApplied(currentPoint, poolState.activationPoint,
                     IF params.swapBaseForQuote THEN BaseToQuote
                     ELSE QuoteToBase,
                     baseFee.secondFactor, baseFee.thirdFactor,
                     baseFee.firstFactor)
            ELSE FALSE
        s == prepareSwapParams(params.swapBaseForQuote, poolState,
                               poolConfigState)
        t == prepareTokenAccounts(state.existing, params.owner,
                 IF params.payer # "" THEN params.payer ELSE params.owner,
                 s.inputMint, s.outputMint, s.inputTokenProgram,
                 s.outputTokenProgram)
        amount == IF params.swapMode \in {ExactIn, PartialFill} THEN amount0
                  ELSE amount1
    IN  Ret([method |-> "swap2",
             args |-> [amount0 |-> amount0, amount1 |-> amount1,
                       swapMode |-> params.swapMode],
             accounts |->
                 [baseMint |-> poolState.baseMint,
                  quoteMint |-> poolConfigState.quoteMint,
                  pool |-> params.pool,
                  baseVault |-> poolState.baseVault,
                  quoteVault |-> poolState.quoteVault,
                  config |-> poolState.config,
                  poolAuthority |-> "poolAuthority",
                  referralTokenAccount |-> params.referralTokenAccount,
                  inputTokenAccount |-> t.ataTokenA,
                  outputTokenAccount |-> t.ataTokenB,
                  payer |-> params.owner,
                  tokenBaseProgram |->
                      IF params.swapBaseForQuote THEN s.inputTokenProgram
                      ELSE s.outputTokenProgram,
                  tokenQuoteProgram |->
                      IF params.swapBaseForQuote THEN s.outputTokenProgram
                      ELSE s.inputTokenProgram],
             remainingAccounts |->
                 IF rateLimiterApplied THEN <<SYSVAR_INSTRUCTIONS_PUBKEY>>
                 ELSE << >>,
             preInstructions |->
                 t.instructions
                 \o (IF s.inputMint = NATIVE_MINT
                     THEN wrapSOLInstruction(params.owner, t.ataTokenA, amount)
                     ELSE << >>),
             postInstructions |->
                 IF NATIVE_MINT \in {s.inputMint, s.outputMint}
                 THEN <<unwrapSOLInstruction(params.owner, params.owner)>>
                 ELSE << >>])

\* swap2 that takes amountIn and minimumAmountOut whatever the mode
swap2AlwaysAmountIn(params, state, currentPoint) ==
    IF ~validateSwapAmount(params.amountIn).ok
    THEN validateSwapAmount(params.amountIn)
    ELSE IF ~state.pool.defined THEN Throw("Pool not found: " \o params.pool)
    ELSE IF ~state.config.defined
    THEN Throw("Pool config not found for virtual pool")
    ELSE swap2Build(params, state, currentPoint, params.amountIn,
                    params.minimumAmountOut)

\* params carries the fields of both shapes of Swap2Params; swap2 reads the
\* two of its mode
swap2(params, state, currentPoint) ==
    LET amount0 == IF params.swapMode = ExactOut THEN params.amountOut
                   ELSE params.amountIn
        amount1 == IF params.swapMode = ExactOut THEN params.maximumAmountIn
                   ELSE params.minimumAmountOut
    IN  IF ~validateSwapAmount(amount0).ok THEN validateSwapAmount(amount0)
        ELSE IF ~state.pool.defined
        THEN Throw("Pool not found: " \o params.pool)
        ELSE IF ~state.config.defined
        THEN Throw("Pool config not found for virtual pool")
        ELSE swap2Build(params, state, currentPoint, amount0, amount1)

\* the pool and its config as the state service answers them
SwapPool(activationPoint) ==
    [config |-> "config", baseMint |-> "baseMint", poolType |-> SPL,
     baseVault |-> "baseVault", quoteVault |-> "quoteVault",
     activationPoint |-> activationPoint]
SwapConfig(quoteMint, baseFeeMode, maxLimiterDuration) ==
    [quoteMint |-> quoteMint, quoteTokenFlag |-> SPL,
     activationType |-> ActivationSlot,
     poolFees |-> [baseFee |-> BaseFee(MIN_FEE_NUMERATOR, 10,
                                       maxLimiterDuration, 1, baseFeeMode)]]

SwapStates ==
    {[pool |-> Some(SwapPool(a)), config |-> Some(SwapConfig(m, mode, d)),
      existing |-> {}] :
        a \in {0, 2}, m \in QuoteMints, d \in {1, 3},
        mode \in {FeeSchedulerLinear, FeeSchedulerExponential, RateLimiter}}
    \cup {[pool |-> NotFound(SwapPool(0)),
           config |-> Some(SwapConfig("USDC", RateLimiter, 1)),
           existing |-> {}],
          [pool |-> Some(SwapPool(0)),
           config |-> NotFound(SwapConfig("USDC", RateLimiter, 1)),
           existing |-> {}]}

\* the four amounts differ, so that the transaction shows which were taken;
\* amountIn and amountOut are also drawn as zero
Swap2Requests ==
    {[fn |-> "swap2",
      p |-> [pool |-> "pool", owner |-> "owner", payer |-> "",
             referralTokenAccount |-> "", swapBaseForQuote |-> b,
             swapMode |-> mode, amountIn |-> a[1], minimumAmountOut |-> 3,
             amountOut |-> a[2], maximumAmountIn |-> 9],
      state |-> s, currentPoint |-> c] :
        b \in BOOLEAN, mode \in {ExactIn, PartialFill, ExactOut},
        a \in {<<5, 7>>, <<0, 7>>, <<5, 0>>}, s \in SwapStates,
        c \in 0..MaxPoint}

InitSwap ==
    /\ op = "request"
    /\ args \in SwapRequests \cup Swap2Requests
    /\ out = Idle
    /\ locals = Idle

Swap2 ==
    /\ op = "request"
    /\ args.fn = "swap2"
    /\ op' = "swap2"
    /\ out' = swap2(args.p, args.state, args.currentPoint)
    /\ UNCHANGED <<args, locals>>

NextSwap ==
    \/ Swap
    \/ Swap2

SpecSwap == InitSwap /\ [][NextSwap]_vars

\* the lamports the transaction wraps before the swap
Wrapped(tx) ==
    {tx.preInstructions[i].lamports :
        i \in {j \in 1..Len(tx.preInstructions) :
                  tx.preInstructions[j].kind = "transfer"}}

\* C28: swap2 sends (amount0, amount1) = (amountOut, maximumAmountIn) in
\* ExactOut mode and (amountIn, minimumAmountOut) in ExactIn and PartialFill
\* modes, and when the input mint is native SOL the amount of SOL it wraps
\* before the swap is the input-side amount: amountIn for ExactIn and
\* PartialFill, maximumAmountIn for ExactOut.
C28_Swap2Amounts ==
    (op = "swap2" /\ out.ok) =>
        LET p == args.p
            inputMint == IF p.swapBaseForQuote
                         THEN args.state.pool.v.baseMint
                         ELSE args.state.config.v.quoteMint
        IN  /\ out.v.args.swapMode = p.swapMode
            /\ <<out.v.args.amount0, out.v.args.amount1>>
                   = IF p.swapMode = ExactOut
                     THEN <<p.amountOut, p.maximumAmountIn>>
                     ELSE <<p.amountIn, p.minimumAmountOut>>
            /\ Wrapped(out.v)
                   = IF inputMint # NATIVE_MINT THEN {}
                     ELSE IF p.swapMode = ExactOut THEN {p.maximumAmountIn}
                     ELSE {p.amountIn}

\* an ExactOut purchase paid in native SOL wrapped maximumAmountIn
C28_Witness ==
    /\ op = "swap2"
    /\ out.ok
    /\ args.p.swapMode = ExactOut
    /\ ~args.p.swapBaseForQuote
    /\ args.state.config.v.quoteMint = NATIVE_MINT
    /\ out.v.args.amount0 = args.p.amountOut
    /\ Wrapped(out.v) = {args.p.maximumAmountIn}

\* the rate limiter applies to the trade of a swap2 request: RateLimiter fee
\* mode, quote to base, current point inside the limiter window counted from
\* the pool's activation point
LimiterAppliesToSwap2 ==
    LET baseFee == args.state.config.v.poolFees.baseFee
        activationPoint == args.state.pool.v.activationPoint
    IN  /\ baseFee.baseFeeMode = RateLimiter
        /\ ~args.p.swapBaseForQuote
        /\ args.currentPoint >= activationPoint
        /\ args.currentPoint <= activationPoint + baseFee.secondFactor
\* the same for a swap request
LimiterAppliesToSwap ==
    /\ args.p.baseFeeMode = RateLimiter
    /\ ~args.p.swapBaseForQuote
    /\ args.p.currentPoint >= args.p.activationPoint
    /\ args.p.currentPoint
           <= args.p.activationPoint + args.p.maxLimiterDuration

\* C29: the transactions built by swap and swap2 carry the instructions
\* sysvar account as a remaining account if and only if the rate limiter
\* applies to the trade (RateLimiter fee mode, quote-to-base direction,
\* current point inside the limiter window counted from the pool's
\* activation point); a base-to-quote swap, or a swap on a pool in a
\* scheduler fee mode, never carries it.
C29_SysvarIffRateLimiter ==
    /\ (op = "swap" /\ out.ok) =>
           /\ out.v.remainingAccounts
                  = IF LimiterAppliesToSwap THEN 1 ELSE 0
           /\ (args.p.swapBaseForQuote \/ args.p.baseFeeMode # RateLimiter)
                  => out.v.remainingAccounts = 0
    /\ (op = "swap2" /\ out.ok) =>
           /\ out.v.remainingAccounts
                  = IF LimiterAppliesToSwap2
                    THEN <<SYSVAR_INSTRUCTIONS_PUBKEY>> ELSE << >>
           /\ (\/ args.p.swapBaseForQuote
               \/ args.state.config.v.poolFees.baseFee.baseFeeMode
                      # RateLimiter)
                  => out.v.remainingAccounts = << >>

\* a swap2 at the last point of the limiter window of a pool activated after
\* point zero carried the account
C29_Witness ==
    /\ op = "swap2"
    /\ out.ok
    /\ args.state.pool.v.activationPoint > 0
    /\ args.currentPoint = args.state.pool.v.activationPoint
                               + args.state.config.v.poolFees.baseFee.secondFactor
    /\ out.v.remainingAccounts = <<SYSVAR_INSTRUCTIONS_PUBKEY>>

\* a swap inside the window carried the account
C29_WitnessSwap ==
    /\ op = "swap"
    /\ out.ok
    /\ LimiterAppliesToSwap
    /\ out.v.remainingAccounts = 1

(***************************************************************************)
(* getMigrationBaseToken over every migration option.                      *)
(***************************************************************************)
\* the largest migration quote amount drawn
MaxMigrationQuote == 7

MigrationBaseTokenRequests ==
    {[fn |-> "getMigrationBaseToken",
      p |-> [migrationQuoteAmount |-> q, sqrtMigrationPrice |-> s,
             migrationOption |-> m]] :
        q \in 0..MaxMigrationQuote, s \in MIN_SQRT_PRICE..MAX_SQRT_PRICE,
        m \in {MET_DAMM, MET_DAMM_V2, NO_MIGRATION, 3, 255}}

InitMigration ==
    /\ op = "request"
    /\ args \in MigrationBaseTokenRequests
    /\ out = Idle
    /\ locals = Idle

GetMigrationBaseToken ==
    /\ op = "request"
    /\ args.fn = "getMigrationBaseToken"
    /\ op' = "getMigrationBaseToken"
    /\ out' = getMigrationBaseToken(args.p.migrationQuoteAmount,
                  args.p.sqrtMigrationPrice, args.p.migrationOption)
    /\ UNCHANGED <<args, locals>>

NextMigration == GetMigrationBaseToken

SpecMigration == InitMigration /\ [][NextMigration]_vars

\* the base side, rounded up, over [migration price, MAX_SQRT_PRICE] of the
\* liquidity the quote amount provides over [MIN_SQRT_PRICE, migration price]
BaseOverUpperRange(quote, sqrtPrice) ==
    CeilDiv(((quote * Q128) \div (sqrtPrice - MIN_SQRT_PRICE))
                * (MAX_SQRT_PRICE - sqrtPrice),
            sqrtPrice * MAX_SQRT_PRICE)

\* C30: for every migration quote amount and migration sqrt price the result
\* of getMigrationBaseToken for NO_MIGRATION is the result for MET_DAMM_V2,
\* which above MIN_SQRT_PRICE is the base side, rounded up, over
\* [migration price, MAX_SQRT_PRICE] of the liquidity the quote amount
\* provides over [MIN_SQRT_PRICE, migration price]; for a migration option
\* other than MET_DAMM, MET_DAMM_V2 and NO_MIGRATION the call fails with
\* 'Invalid migration option'.
C30_NoMigrationAsDammV2 ==
    op = "getMigrationBaseToken" =>
        /\ args.p.migrationOption = NO_MIGRATION =>
            /\ out = getMigrationBaseToken(args.p.migrationQuoteAmount,
                         args.p.sqrtMigrationPrice, MET_DAMM_V2)
            /\ args.p.sqrtMigrationPrice > MIN_SQRT_PRICE =>
                   out = Ret(BaseOverUpperRange(args.p.migrationQuoteAmount,
                                                args.p.sqrtMigrationPrice))
        /\ args.p.migrationOption \notin {MET_DAMM, MET_DAMM_V2, NO_MIGRATION} =>
               out = Throw("Invalid migration option")

\* a NO_MIGRATION call that returns a positive base amount other than the
\* MET_DAMM quotient
C30_Witness ==
    /\ op = "getMigrationBaseToken"
    /\ args.p.migrationOption = NO_MIGRATION
    /\ out.ok
    /\ out.v > 0
    /\ out # getMigrationBaseToken(args.p.migrationQuoteAmount,
                 args.p.sqrtMigrationPrice, MET_DAMM)

\* a call with an unknown migration option
C30_WitnessInvalid ==
    /\ op = "getMigrationBaseToken"
    /\ args.p.migrationOption = 3
    /\ out = Throw("Invalid migration option")

====
